---- MODULE Spec2Model ----
(***************************************************************************)
(* Catalog ingestion, code normalization and matching, price extraction,   *)
(* the processed-file cache and the relevance ranking of the pricing       *)
(* backend (src/backend).                                                  *)
(*                                                                         *)
(* Text is modelled as a sequence of one-character strings, so that the    *)
(* string operations of the code (upper, split, replace, regular           *)
(* expressions) are computed character by character.  A price is its sign, *)
(* its whole part and its decimal digits.                                  *)
(***************************************************************************)
EXTENDS Integers, Sequences, FiniteSets, TLC

VARIABLES
    call,             \* the function or handler that ran last ("none" at start)
    arg,              \* its input
    ret,              \* its output(s)
    grid,             \* the workbook being processed
    file,             \* the cached document: its modification time and size
    file_cache,       \* _file_cache of file_cache.py
    cache_timestamps, \* _cache_timestamps of file_cache.py
    now,              \* time.time(), in seconds
    builds,           \* how many times an index has been built
    threads           \* the position and the locals of every thread in the cache

vars == <<call, arg, ret, grid, file, file_cache, cache_timestamps, now, builds, threads>>

cacheVars == <<file, file_cache, cache_timestamps, now, builds, threads>>

\* the cache is not in use
CacheIdle ==
    /\ file = <<>>
    /\ file_cache = <<>>
    /\ cache_timestamps = <<>>
    /\ now = 0
    /\ builds = 0
    /\ threads = <<>>

(***************************************************************************)
(* Characters and strings                                                  *)
(***************************************************************************)
Digits == {"0", "1", "2", "3", "4", "5", "6", "7", "8", "9"}

LowerSeq == <<"a", "b", "c", "d", "e", "f", "g", "h", "i", "j", "k", "l", "m",
              "n", "o", "p", "q", "r", "s", "t", "u", "v", "w", "x", "y", "z">>

UpperSeq == <<"A", "B", "C", "D", "E", "F", "G", "H", "I", "J", "K", "L", "M",
              "N", "O", "P", "Q", "R", "S", "T", "U", "V", "W", "X", "Y", "Z">>

LowerLetters == {LowerSeq[i] : i \in 1..26}

UpperLetters == {UpperSeq[i] : i \in 1..26}

\* \s of the regular expressions and the separators of str.split()/strip()
Whitespace == {" "}

\* \w of the regular expressions
WordChars == Digits \cup LowerLetters \cup UpperLetters \cup {"_"}

\* str.upper() on one character
UpperChar(c) ==
    IF c \in LowerLetters
    THEN UpperSeq[CHOOSE i \in 1..26 : LowerSeq[i] = c]
    ELSE c

\* str.upper()
Upper(s) == [i \in 1..Len(s) |-> UpperChar(s[i])]

\* s[i:] (1-based i)
Drop(s, i) == IF i > Len(s) THEN <<>> ELSE SubSeq(s, i, Len(s))

\* s.startswith(pat, i-1)
MatchAt(s, pat, i) ==
    /\ i + Len(pat) - 1 <= Len(s)
    /\ \A j \in 1..Len(pat) : s[i + j - 1] = pat[j]

\* s.startswith(pat)
StartsWith(s, pat) == MatchAt(s, pat, 1)

\* pat in s
Contains(s, pat) == \E i \in 1..(Len(s) + 1) : MatchAt(s, pat, i)

RECURSIVE ReplaceFrom(_, _, _, _)
ReplaceFrom(s, pat, rep, i) ==
    IF i > Len(s) THEN <<>>
    ELSE IF MatchAt(s, pat, i)
         THEN rep \o ReplaceFrom(s, pat, rep, i + Len(pat))
         ELSE <<s[i]>> \o ReplaceFrom(s, pat, rep, i + 1)

\* s.replace(pat, rep) for a non-empty pat: leftmost, non-overlapping
Replace(s, pat, rep) == ReplaceFrom(s, pat, rep, 1)

RECURSIVE LStrip(_)
LStrip(s) ==
    IF s # <<>> /\ Head(s) \in Whitespace THEN LStrip(Tail(s)) ELSE s

RECURSIVE RStrip(_)
RStrip(s) ==
    IF s # <<>> /\ s[Len(s)] \in Whitespace
    THEN RStrip(SubSeq(s, 1, Len(s) - 1))
    ELSE s

\* s.strip()
Strip(s) == RStrip(LStrip(s))

RECURSIVE SplitFrom(_, _, _)
SplitFrom(s, i, word) ==
    IF i > Len(s)
    THEN IF word = <<>> THEN <<>> ELSE <<word>>
    ELSE IF s[i] \in Whitespace
         THEN IF word = <<>>
              THEN SplitFrom(s, i + 1, <<>>)
              ELSE <<word>> \o SplitFrom(s, i + 1, <<>>)
         ELSE SplitFrom(s, i + 1, Append(word, s[i]))

\* s.split(): the words between runs of whitespace
Split(s) == SplitFrom(s, 1, <<>>)

RECURSIVE Join(_, _)
\* sep.join(words)
Join(sep, words) ==
    IF words = <<>> THEN <<>>
    ELSE IF Len(words) = 1 THEN words[1]
    ELSE words[1] \o sep \o Join(sep, Tail(words))

RECURSIVE CollapseFrom(_, _, _, _)
CollapseFrom(s, class, rep, i) ==
    IF i > Len(s) THEN <<>>
    ELSE IF s[i] \in class
         THEN IF i > 1 /\ s[i - 1] \in class
              THEN CollapseFrom(s, class, rep, i + 1)
              ELSE rep \o CollapseFrom(s, class, rep, i + 1)
         ELSE <<s[i]>> \o CollapseFrom(s, class, rep, i + 1)

\* re.sub("[class]+", rep, s): every maximal run of class characters becomes rep
SubRuns(s, class, rep) == CollapseFrom(s, class, rep, 1)

\* the strings over an alphabet of length at most n
StringsUpTo(alphabet, n) == UNION {[1..k -> alphabet] : k \in 0..n}

(***************************************************************************)
(* Code normalization                                                      *)
(***************************************************************************)
\* SKUValidator.normalize_sku
SkuValidatorNormalize(sku) ==
    IF sku = <<>> THEN <<>>
    ELSE LET joined == Join(<<" ">>, Split(Upper(sku)))
             l      == Replace(joined, <<" ", "L", " ">>, <<" ", "L", "/", "R", " ">>)
             r      == Replace(l, <<" ", "R", " ">>, <<" ", "L", "/", "R", " ">>)
         IN  Replace(r, <<"L", "/", "R", "/", "R">>, <<"L", "/", "R">>)

\* normalize_sku of server.py
normalize_sku(sku) ==
    IF sku = <<>> THEN <<>>
    ELSE LET c0 == Upper(Strip(sku))
             c1 == Replace(c0, <<"L", "E", "F", "T", "/", "R", "I", "G", "H", "T">>,
                               <<"L", "/", "R">>)
             c2 == Replace(Replace(c1, <<"L", "E", "F", "T">>, <<"L">>),
                           <<"R", "I", "G", "H", "T">>, <<"R">>)
             c3 == SubRuns(c2, Whitespace \cup {"-", "_"}, <<" ">>)
             c4 == Replace(c3, <<" ", "L", " ", "R">>, <<" ", "L", "/", "R">>)
             c5 == Replace(c4, <<" ", "L", "/", " ", "R">>, <<" ", "L", "/", "R">>)
             c6 == Replace(c5, <<"L", " ", "/", "R">>, <<"L", "/", "R">>)
         IN  Strip(c6)

\* the number of consecutive digits of s from position i on
RECURSIVE DigitRun(_, _)
DigitRun(s, i) ==
    IF i <= Len(s) /\ s[i] \in Digits THEN 1 + DigitRun(s, i + 1) ELSE 0

\* the number of consecutive upper-case letters of s from position i on
RECURSIVE LetterRun(_, _)
LetterRun(s, i) ==
    IF i <= Len(s) /\ s[i] \in UpperLetters THEN 1 + LetterRun(s, i + 1) ELSE 0

\* position i is the end of the text or holds whitespace: (\s+.*)?$
EndOrSpace(s, i) == i > Len(s) \/ s[i] \in Whitespace

\* re.match("^(p1|p2|..)\d{lo,hi}(\s+.*)?$", s): a prefix, a run of lo..hi
\* digits, and then the end of the text or whitespace
MatchesPattern(s, prefixes, lo, hi) ==
    \E p \in prefixes :
        /\ StartsWith(s, p)
        /\ LET k == DigitRun(s, Len(p) + 1)
           IN  k \in lo..hi /\ EndOrSpace(s, Len(p) + k + 1)

\* the "tall" pattern, ^(UT|PT|TC)\d{2,4}(x\d{2,3})?(\s+.*)?$ : the optional
\* part is a lower-case x and 2 or 3 digits
MatchesTall(s) ==
    \E p \in {<<"U", "T">>, <<"P", "T">>, <<"T", "C">>} :
        /\ StartsWith(s, p)
        /\ LET k == DigitRun(s, Len(p) + 1)
               j == Len(p) + k + 1
           IN  /\ k \in 2..4
               /\ \/ EndOrSpace(s, j)
                  \/ /\ j <= Len(s) /\ s[j] = "x"
                     /\ DigitRun(s, j + 1) \in 2..3
                     /\ EndOrSpace(s, j + 1 + DigitRun(s, j + 1))

\* SKUValidator.is_valid_sku with PATTERNS
IsValidSku(sku) ==
    /\ sku # <<>>
    /\ LET u == Upper(Strip(sku))
       IN  \/ MatchesPattern(u, {<<"B">>}, 2, 3)
           \/ MatchesPattern(u, {<<"D", "B">>}, 2, 3)
           \/ MatchesPattern(u, {<<"S", "B">>}, 2, 3)
           \/ MatchesPattern(u, {<<"W">>}, 3, 4)
           \/ MatchesTall(u)
           \/ MatchesPattern(u, {<<"C", "B", "S">>, <<"B", "S", "S">>, <<"A", "C", "B">>}, 2, 3)
           \/ MatchesPattern(u, {<<"C", "W">>, <<"W", "S", "C">>, <<"W", "B", "C">>,
                                 <<"W", "T", "C">>}, 2, 4)
           \/ MatchesPattern(u, {<<"V", "S", "B">>, <<"V", "D", "B">>, <<"V", "S", "F">>}, 2, 2)
           \/ MatchesPattern(u, {<<"O", "V", "D">>, <<"O", "V", "S">>, <<"D", "R">>, <<"P", "B">>,
                                 <<"R", "R">>, <<"T", "E", "P">>, <<"W", "E", "P">>}, 2, 4)

\* re.match("^([A-Z]{1,3}\d{2,})", s) succeeds
HasBaseCode(s) == LetterRun(s, 1) \in 1..3 /\ DigitRun(s, LetterRun(s, 1) + 1) >= 2

\* group(1) of that match: the letters and the whole run of digits
BaseGroup(s) == SubSeq(s, 1, LetterRun(s, 1) + DigitRun(s, LetterRun(s, 1) + 1))

\* base_match.group(1) if base_match else s
BaseCodeOf(s) == IF HasBaseCode(s) THEN BaseGroup(s) ELSE s

\* re.match("^([A-Z]{1,3}\d{2,})(?:\s|[-]|$)", s) succeeds
HasBaseCodeDelimited(s) ==
    /\ HasBaseCode(s)
    /\ LET j == Len(BaseGroup(s)) + 1
       IN  j > Len(s) \/ s[j] \in Whitespace \/ s[j] = "-"

\* _canonical_sku: re.sub("[^\w]", "", value)
CanonicalSku(value) == SelectSeq(value, LAMBDA c : c \in WordChars)

\* the start of the run of whitespace that ends just before position i
RECURSIVE RunStart(_, _)
RunStart(s, i) ==
    IF i > 1 /\ s[i - 1] \in Whitespace THEN RunStart(s, i - 1) ELSE i

\* value ends with whitespace followed by suf
EndsWithSpaced(value, suf) ==
    /\ Len(value) > Len(suf)
    /\ MatchAt(value, suf, Len(value) - Len(suf) + 1)
    /\ value[Len(value) - Len(suf)] \in Whitespace

\* _strip_lr_suffix: re.sub("\s+(?:L/R|L|R)$", "", value).strip()
StripLrSuffix(value) ==
    LET sufs == {<<"L", "/", "R">>, <<"L">>, <<"R">>}
        hit  == {suf \in sufs : EndsWithSpaced(value, suf)}
    IN  IF hit = {} THEN Strip(value)
        ELSE LET suf == CHOOSE x \in hit : \A y \in hit : Len(x) >= Len(y)
             IN  Strip(SubSeq(value, 1, RunStart(value, Len(value) - Len(suf) + 1) - 1))

(***************************************************************************)
(* Value extraction.  A number is [neg, units, frac]: its sign, its whole   *)
(* part and its decimal digits without trailing zeros, so 1234.50 is        *)
(* [neg |-> FALSE, units |-> 1234, frac |-> <<"5">>].  A cell is empty     *)
(* (NaN), a number or a text.  An extraction returns <<>> for "no value"    *)
(* and <<n>> for the value n.                                              *)
(***************************************************************************)
DigitSeq == <<"0", "1", "2", "3", "4", "5", "6", "7", "8", "9">>

DigitVal(c) == (CHOOSE i \in 1..10 : DigitSeq[i] = c) - 1

\* int(ds) for a sequence of digits
RECURSIVE NatOf(_)
NatOf(ds) ==
    IF ds = <<>> THEN 0
    ELSE 10 * NatOf(SubSeq(ds, 1, Len(ds) - 1)) + DigitVal(ds[Len(ds)])

RECURSIVE TrimZeros(_)
TrimZeros(f) ==
    IF f # <<>> /\ f[Len(f)] = "0" THEN TrimZeros(SubSeq(f, 1, Len(f) - 1)) ELSE f

\* the float with the given sign, whole-part digits and decimal digits
Num(neg, whole, f) ==
    LET u == NatOf(whole)
        t == TrimZeros(f)
    IN  [neg |-> neg /\ (u # 0 \/ t # <<>>), units |-> u, frac |-> t]

IsZero(n) == n.units = 0 /\ n.frac = <<>>

\* lo <= n <= hi for whole numbers lo <= hi
InRange(n, lo, hi) ==
    /\ ~n.neg
    /\ n.units >= lo
    /\ n.units < hi \/ (n.units = hi /\ n.frac = <<>>)

\* 0 < n <= hi
PositiveUpTo(n, hi) ==
    /\ ~n.neg /\ ~IsZero(n)
    /\ n.units < hi \/ (n.units = hi /\ n.frac = <<>>)

RECURSIVE PowerOfTwo(_)
PowerOfTwo(e) == IF e = 0 THEN 1 ELSE 2 * PowerOfTwo(e - 1)

\* 2^k modulo 1000
RECURSIVE PowMod(_)
PowMod(k) == IF k = 0 THEN 1 ELSE (2 * PowMod(k - 1)) % 1000

\* the least j with thousandths * 2^j >= 1000, for 0 < thousandths < 1000
RECURSIVE ShiftsToOne(_)
ShiftsToOne(thousandths) ==
    IF thousandths >= 1000 THEN 0 ELSE 1 + ShiftsToOne(2 * thousandths)

\* the greatest e with 1000 * 2^e <= thousandths, for thousandths >= 1000
RECURSIVE Log2Floor(_)
Log2Floor(thousandths) ==
    IF thousandths < 2000 THEN 0 ELSE 1 + Log2Floor(thousandths \div 2)

\* the binary exponent of thousandths / 1000
Exponent(thousandths) ==
    IF thousandths >= 1000 THEN Log2Floor(thousandths) ELSE 0 - ShiftsToOne(thousandths)

\* where the double nearest to thousandths / 1000 lies: what is cut off after
\* the 53 bits of the mantissa, in thousandths of the last bit.  0: the double
\* is the number itself; under 500: the double is that much below the number;
\* over 500: it is above it by the complement.
CutOff(thousandths) ==
    ((thousandths % 1000) * PowMod(52 - Exponent(thousandths))) % 1000

\* the sequence of two digits of a number of cents below 100
TwoDigits(cc) == <<DigitSeq[(cc \div 10) + 1], DigitSeq[(cc % 10) + 1]>>

\* n with its decimals cut to two and, when up, the next hundredth
Hundredths(n, up) ==
    LET cents == NatOf(SubSeq(n.frac \o <<"0", "0">>, 1, 2))
        c     == IF up THEN cents + 1 ELSE cents
        u     == IF c = 100 THEN n.units + 1 ELSE n.units
        f     == TrimZeros(TwoDigits(c % 100))
    IN  [neg |-> n.neg /\ (u # 0 \/ f # <<>>), units |-> u, frac |-> f]

\* the decimals of n after the second are exactly a 5: n is half way between
\* two hundredths
IsTie(n) == Len(n.frac) = 3 /\ n.frac[3] = "5"

Thousandths(n) == 1000 * n.units + NatOf(SubSeq(n.frac, 1, 3))

OddCents(n) == DigitVal(n.frac[2]) % 2 = 1

\* round(n, 2) of Python for a float of at most 1,000,000: the double is
\* rounded correctly, so a number half way between two hundredths goes where
\* its double lies, and to the even hundredth when the double is exact
Round2(n) ==
    IF Len(n.frac) <= 2 THEN n
    ELSE IF ~IsTie(n) THEN Hundredths(n, DigitVal(n.frac[3]) >= 5)
    ELSE LET cut == CutOff(Thousandths(n))
         IN  Hundredths(n, IF cut = 0 THEN OddCents(n) ELSE cut > 500)

\* np.round(n, 2): n * 100.0, rounded to the nearest integer with ties to
\* even, divided by 100.0.  The product of a number half way between two
\* hundredths is the exact half unless the double is off by more than 0.32
\* of its last bit and the product has only 6 more binary digits before the
\* point (the mantissa of the number is under 1.28).
NpRound2(n) ==
    IF Len(n.frac) <= 2 THEN n
    ELSE IF ~IsTie(n) THEN Hundredths(n, DigitVal(n.frac[3]) >= 5)
    ELSE LET t     == Thousandths(n)
             e     == Exponent(t)
             cut   == CutOff(t)
             short == IF e >= 0 THEN t < 1280 * PowerOfTwo(e)
                      ELSE t * PowerOfTwo(0 - e) < 1280
         IN  Hundredths(n, IF short /\ cut > 320 /\ cut < 500 THEN FALSE
                           ELSE IF short /\ cut > 500 /\ cut < 680 THEN TRUE
                           ELSE OddCents(n))

\* the position of the first digit of s, 0 when s holds none
FirstDigit(s) ==
    IF \E i \in 1..Len(s) : s[i] \in Digits
    THEN CHOOSE i \in 1..Len(s) : s[i] \in Digits /\ \A j \in 1..(i - 1) : s[j] \notin Digits
    ELSE 0

\* the digits of the groups (?:,\d{3})* that start at position q
RECURSIVE CommaGroups(_, _)
CommaGroups(s, q) ==
    IF q <= Len(s) /\ s[q] = "," /\ DigitRun(s, q + 1) >= 3
    THEN SubSeq(s, q + 1, q + 3) \o CommaGroups(s, q + 4)
    ELSE <<>>

\* price_pattern.search(s), \$?\s*(\d{1,3}(?:,\d{3})*(?:\.\d{2})?)..., and
\* float(group(1).replace(",", "")): the match starts at the first digit of s,
\* takes at most three digits, then groups of a comma and three digits, then
\* a point and two digits; nothing after it is looked at
PricePatternSearch(s) ==
    LET p == FirstDigit(s)
    IN  IF p = 0 THEN <<>>
        ELSE LET d     == IF DigitRun(s, p) > 3 THEN 3 ELSE DigitRun(s, p)
                 more  == CommaGroups(s, p + d)
                 q     == p + d + 4 * (Len(more) \div 3)
                 hasFr == q <= Len(s) /\ s[q] = "." /\ DigitRun(s, q + 1) >= 2
                 fr    == IF hasFr THEN SubSeq(s, q + 1, q + 2) ELSE <<>>
             IN  <<Num(FALSE, SubSeq(s, p, p + d - 1) \o more, fr)>>

\* float(text) for a plain decimal literal: sign, digits, point, digits
\* (ValueError, <<>>, for anything else the cells of this model can hold)
ParseFloat(text) ==
    LET t     == Strip(text)
        neg   == t # <<>> /\ t[1] = "-"
        b     == IF t # <<>> /\ t[1] \in {"-", "+"} THEN Tail(t) ELSE t
        w     == DigitRun(b, 1)
        point == w < Len(b) /\ b[w + 1] = "."
        f     == IF point THEN DigitRun(b, w + 2) ELSE 0
        used  == w + (IF point THEN 1 + f ELSE 0)
    IN  IF used = Len(b) /\ w + f > 0
        THEN <<Num(neg, SubSeq(b, 1, w), SubSeq(b, w + 2, w + 1 + f))>>
        ELSE <<>>

\* the text path of _extract_prices_advanced and of _process_excel
StripDecorations(text) ==
    LET s1 == Strip(text)
        s2 == Strip(Replace(Replace(s1, <<"O", "P", "T">>, <<>>), <<"o", "p", "t">>, <<>>))
    IN  Strip(Replace(Replace(s2, <<"$">>, <<>>), <<",">>, <<>>))

\* AdvancedDocumentProcessor._extract_prices_advanced, for one cell
ExtractPriceAdvanced(cell) ==
    IF cell.kind = "empty" THEN <<>>
    ELSE LET price == IF cell.kind = "number" THEN <<cell.value>>
                      ELSE PricePatternSearch(StripDecorations(cell.text))
         IN  IF price # <<>> /\ ~IsZero(price[1]) /\ InRange(price[1], 10, 1000000)
             THEN <<Round2(price[1])>>
             ELSE <<>>

\* RAGDocumentProcessor._process_excel, the extraction for one cell
ExtractPriceRag(cell) ==
    IF cell.kind = "empty" THEN <<>>
    ELSE IF cell.kind = "text"
            /\ Upper(Strip(cell.text)) \in {<<>>, <<"N", "A", "N">>, <<"N", "O", "N", "E">>,
                                            <<"O", "P", "T">>}
    THEN <<>>
    ELSE LET price == IF cell.kind = "number" THEN <<cell.value>>
                      ELSE PricePatternSearch(StripDecorations(cell.text))
         IN  IF price # <<>> /\ ~IsZero(price[1]) /\ InRange(price[1], 10, 1000000)
             THEN <<Round2(price[1])>>
             ELSE <<>>

\* MultiModalDocumentProcessor._extract_price
ExtractPriceMultimodal(cell) ==
    IF cell.kind = "empty" THEN <<>>
    ELSE LET price == IF cell.kind = "number" THEN <<cell.value>>
                      ELSE PricePatternSearch(cell.text)
         IN  IF price # <<>> /\ PositiveUpTo(price[1], 1000000)
             THEN <<NpRound2(price[1])>>
             ELSE <<>>

\* PricingProcessor._parse_price
ParsePrice(cell) ==
    IF cell.kind = "empty" THEN <<>>
    ELSE IF cell.kind = "number" THEN <<cell.value>>
    ELSE LET text == Strip(Replace(Replace(cell.text, <<"$">>, <<>>), <<",">>, <<>>))
         IN  IF text = <<>> THEN <<>> ELSE ParseFloat(text)

(***************************************************************************)
(* Normalizing a code string, and normalizing the result again             *)
(***************************************************************************)
MaxCodeLen == 3

MaxApplications == 2

NormAlphabet == {"B", "2", "L", "R", " ", "/", "-"}

\* codes as they are typed in catalogs and questions
NormSeeds ==
    { <<" ", "w", "1", "8", "4", "2", " ", " ", "l", "/", "r", " ">>,
      <<"B", "-", "2", "4">>,
      <<"b", "2", "4", " ", "b", "u", "t", "t">>,
      <<"W", "3", "0", "3", "0", " ", "L", "E", "F", "T", "/", "R", "I", "G", "H", "T">>,
      <<"W", "3", "0", "3", "0", " ", "L", " ", "R">>,
      <<"W", "3", "0", " ", "R", " ", "R", " ", "S", "D">>,
      <<"W", "3", "0", " ", "L", "/", "R", "/", "R", "/", "R">>,
      <<"L", "E", "F", "T", "E", "F", "T">> }

CodeInputs == StringsUpTo(NormAlphabet, MaxCodeLen) \cup NormSeeds

InitNorm ==
    /\ call = "none"
    /\ arg \in CodeInputs
    /\ ret = <<>>
    /\ grid = <<>>
    /\ CacheIdle

\* the value the next application is given: the input, then the last result
Current == IF ret = <<>> THEN arg ELSE ret[Len(ret)]

ApplyServerNormalize ==
    /\ call \in {"none", "normalize_sku"}
    /\ Len(ret) < MaxApplications
    /\ call' = "normalize_sku"
    /\ ret' = Append(ret, normalize_sku(Current))
    /\ UNCHANGED <<arg, grid>>
    /\ UNCHANGED cacheVars

ApplyValidatorNormalize ==
    /\ call \in {"none", "SKUValidator.normalize_sku"}
    /\ Len(ret) < MaxApplications
    /\ call' = "SKUValidator.normalize_sku"
    /\ ret' = Append(ret, SkuValidatorNormalize(Current))
    /\ UNCHANGED <<arg, grid>>
    /\ UNCHANGED cacheVars

NextNorm == ApplyServerNormalize \/ ApplyValidatorNormalize

SpecNorm == InitNorm /\ [][NextNorm]_vars

\* C2: normalize(normalize(s)) = normalize(s) for every code string s, for
\* normalize_sku of server.py and for SKUValidator.normalize_sku
C2_NormalizationIdempotent ==
    (call \in {"normalize_sku", "SKUValidator.normalize_sku"} /\ Len(ret) >= 2)
        => ret[2] = ret[1]

\* the same, for each normalizer on its own
C2_ServerIdempotent ==
    (call = "normalize_sku" /\ Len(ret) >= 2) => ret[2] = ret[1]

C2_ValidatorIdempotent ==
    (call = "SKUValidator.normalize_sku" /\ Len(ret) >= 2) => ret[2] = ret[1]

(***************************************************************************)
(* Extracting the value of one cell                                        *)
(***************************************************************************)
MaxCellLen == 3

CellAlphabet == {"1", "0", "5", ".", ",", "$", " ", "-"}

TextCell(t) == [kind |-> "text", text |-> t]

NumberCell(n) == [kind |-> "number", value |-> n]

EmptyCell == [kind |-> "empty"]

Cell1234 == TextCell(<<"$", "1", ",", "2", "3", "4", ".", "5", "0">>)

Cell45M == TextCell(<<"4", "5", "0", "0", "0", "0", "0", "0">>)

CellOpt342 == TextCell(<<"O", "P", "T", " ", "3", "4", "2">>)

Cell753 == TextCell(<<"7", "5", "3", ".", "0", "0">>)

Cell479 == TextCell(<<"4", "7", "9", ".", "8", "8">>)

CellBlank == TextCell(<<>>)

NumberCells ==
    { NumberCell(Num(FALSE, <<"7", "5", "3">>, <<>>)),
      NumberCell(Num(FALSE, <<"9">>, <<"9", "9">>)),
      NumberCell(Num(FALSE, <<"1", "0">>, <<>>)),
      NumberCell(Num(FALSE, <<"1", "0", "0", "0", "0", "0", "0">>, <<>>)),
      NumberCell(Num(FALSE, <<"1", "0", "0", "0", "0", "0", "0">>, <<"0", "1">>)),
      NumberCell(Num(FALSE, <<"4", "5", "0", "0", "0", "0", "0", "0">>, <<>>)),
      NumberCell(Num(FALSE, <<"0">>, <<>>)),
      NumberCell(Num(FALSE, <<"5">>, <<>>)),
      NumberCell(Num(FALSE, <<"1", "2">>, <<"3", "4", "5">>)),
      NumberCell(Num(TRUE, <<"5", "0">>, <<>>)) }

Cells ==
    {TextCell(t) : t \in StringsUpTo(CellAlphabet, MaxCellLen)}
        \cup {Cell1234, Cell45M, CellOpt342, Cell753, Cell479, EmptyCell}
        \cup NumberCells

InitPrice ==
    /\ call = "none"
    /\ arg \in Cells
    /\ ret = <<>>
    /\ grid = <<>>
    /\ CacheIdle

ExtractAdvanced ==
    /\ call = "none"
    /\ call' = "_extract_prices_advanced"
    /\ ret' = ExtractPriceAdvanced(arg)
    /\ UNCHANGED <<arg, grid>>
    /\ UNCHANGED cacheVars

ExtractRag ==
    /\ call = "none"
    /\ call' = "_process_excel"
    /\ ret' = ExtractPriceRag(arg)
    /\ UNCHANGED <<arg, grid>>
    /\ UNCHANGED cacheVars

ExtractMultimodal ==
    /\ call = "none"
    /\ call' = "_extract_price"
    /\ ret' = ExtractPriceMultimodal(arg)
    /\ UNCHANGED <<arg, grid>>
    /\ UNCHANGED cacheVars

ExtractPricing ==
    /\ call = "none"
    /\ call' = "_parse_price"
    /\ ret' = ParsePrice(arg)
    /\ UNCHANGED <<arg, grid>>
    /\ UNCHANGED cacheVars

NextPrice == ExtractAdvanced \/ ExtractRag \/ ExtractMultimodal \/ ExtractPricing

SpecPrice == InitPrice /\ [][NextPrice]_vars

ValueExtractors == {"_extract_prices_advanced", "_process_excel", "_extract_price"}

\* C1: the value extraction of a text cell gives 1234.50 for "$1,234.50" and
\* no value for "45000000", which is outside the range 10 to 1,000,000
C1_ValueRoundTrip ==
    call \in ValueExtractors =>
        /\ arg = Cell1234 => ret = <<Num(FALSE, <<"1", "2", "3", "4">>, <<"5", "0">>)>>
        /\ arg = Cell45M => ret = <<>>



\* C12: a value the extractor returns for a cell lies in the range 10 to
\* 1,000,000 and has at most 2 decimal places, and a numeric cell outside
\* the range gives no value
C12_StoredPriceInRange ==
    call \in {"_extract_prices_advanced", "_extract_price", "_parse_price"} =>
        /\ ret # <<>> => InRange(ret[1], 10, 1000000) /\ Len(ret[1].frac) <= 2
        /\ (arg.kind = "number" /\ ~InRange(arg.value, 10, 1000000)) => ret = <<>>

(***************************************************************************)
(* Finding the codes of a question: the three regular expressions, as      *)
(* re.findall applies them                                                 *)
(***************************************************************************)
Letters == LowerLetters \cup UpperLetters

Alnum == Letters \cup Digits

\* str.lower() on one character
LowerChar(c) ==
    IF c \in UpperLetters
    THEN LowerSeq[CHOOSE i \in 1..26 : UpperSeq[i] = c]
    ELSE c

\* str.lower()
Lower(s) == [i \in 1..Len(s) |-> LowerChar(s[i])]

\* x in list
InSeq(x, list) == \E i \in 1..Len(list) : list[i] = x

\* the number of consecutive characters of s from position i on that are in class
RECURSIVE Run(_, _, _)
Run(s, class, i) ==
    IF i <= Len(s) /\ s[i] \in class THEN 1 + Run(s, class, i + 1) ELSE 0

\* \b just before position i: a word character on exactly one side
Boundary(s, i) ==
    (i > 1 /\ s[i - 1] \in WordChars) # (i <= Len(s) /\ s[i] \in WordChars)

\* [A-Z]{1,3}\d{2,} at position i, ignoring case: the position after it, or 0
CodeHeadEnd(s, i) ==
    LET n == Run(s, Letters, i)
        d == Run(s, Digits, i + n)
    IN  IF n \in 1..3 /\ d >= 2 THEN i + n + d ELSE 0

\* (?:[seps][A-Z0-9]+)* from position p: the positions after k, k-1, .., 0
\* repetitions, the greedy one first
RECURSIVE SepRunEnds(_, _, _)
SepRunEnds(s, seps, p) ==
    IF p <= Len(s) /\ s[p] \in seps /\ Run(s, Alnum, p + 1) > 0
    THEN SepRunEnds(s, seps, p + 1 + Run(s, Alnum, p + 1)) \o <<p>>
    ELSE <<p>>

\* (?:\s+[class]+)? at position p: the position after it, p when it is absent
SpacedRunEnd(s, class, p) ==
    LET w == Run(s, Whitespace, p)
        a == Run(s, class, p + w)
    IN  IF w > 0 /\ a > 0 THEN p + w + a ELSE p

\* (?:\s+\d+[A-Z]+)? at position p: the position after it, p when it is absent
SpacedSizeEnd(s, p) ==
    LET w == Run(s, Whitespace, p)
        d == Run(s, Digits, p + w)
        a == Run(s, Letters, p + w + d)
    IN  IF w > 0 /\ d > 0 /\ a > 0 THEN p + w + d + a ELSE p

\* the first of the candidate end positions, in the order the matcher tries
\* them, at which the closing \b holds; 0 when there is none
FirstBoundary(s, cands) ==
    LET ok == {j \in 1..Len(cands) : Boundary(s, cands[j])}
    IN  IF ok = {} THEN 0 ELSE cands[CHOOSE j \in ok : \A k \in ok : j <= k]

\* sku_pattern of create_advanced_context at position i: the end of the
\* match (the position after it), or 0
AdvancedCodeEnd(s, i) ==
    LET h     == CodeHeadEnd(s, i)
        ends  == SepRunEnds(s, Whitespace \cup {"-"}, h)
        cands == [j \in 1..(2 * Len(ends)) |->
                     IF j % 2 = 1 THEN SpacedRunEnd(s, Alnum, ends[(j + 1) \div 2])
                     ELSE ends[j \div 2]]
    IN  IF ~Boundary(s, i) \/ h = 0 THEN 0 ELSE FirstBoundary(s, cands)

\* sku_pattern of _build_excel_context at position i
RagCodeEnd(s, i) ==
    LET h == CodeHeadEnd(s, i)
        a == SpacedSizeEnd(s, h)
    IN  IF ~Boundary(s, i) \/ h = 0 THEN 0
        ELSE FirstBoundary(s, <<SpacedRunEnd(s, Letters, a), a,
                                SpacedRunEnd(s, Letters, h), h>>)

\* (?:\s?L/R|\s?L|\s?R)? at position p: the ends the alternatives give, in
\* the order they are tried, and p itself for the absent suffix
LrSuffixEnds(s, p) ==
    LET sp == IF p <= Len(s) /\ s[p] \in Whitespace THEN <<p + 1, p>> ELSE <<p>>
        Alt(suf) == [j \in 1..Len(sp) |->
                        IF MatchAt(s, suf, sp[j]) THEN sp[j] + Len(suf) ELSE p]
    IN  Alt(<<"L", "/", "R">>) \o Alt(<<"l", "/", "r">>) \o Alt(<<"L", "/", "r">>) \o Alt(<<"l", "/", "R">>)
            \o Alt(<<"L">>) \o Alt(<<"l">>) \o Alt(<<"R">>) \o Alt(<<"r">>) \o <<p>>

\* the candidates of every element of a list of ends, in order
RECURSIVE WithLrSuffix(_, _)
WithLrSuffix(s, ends) ==
    IF ends = <<>> THEN <<>>
    ELSE LrSuffixEnds(s, Head(ends)) \o WithLrSuffix(s, Tail(ends))

\* pattern of find_matching_skus at position i: a letter at a word boundary,
\* a digit ahead with only letters, digits, whitespace, "-" and "/" before it,
\* then runs of letters and digits joined by single separators
ServerCodeEnd(s, i) ==
    LET ahead == Run(s, Alnum \cup Whitespace \cup {"-", "/"}, i)
        first == i + Run(s, Alnum, i)
        ends  == SepRunEnds(s, Whitespace \cup {"-", "/"}, first)
    IN  IF \/ ~Boundary(s, i)
           \/ i > Len(s)
           \/ s[i] \notin Letters
           \/ ~\E j \in i..(i + ahead - 1) : s[j] \in Digits
        THEN 0
        ELSE FirstBoundary(s, WithLrSuffix(s, ends))

\* the end of the match of one of the three patterns at position i
CodeEnd(pattern, s, i) ==
    CASE pattern = "advanced" -> AdvancedCodeEnd(s, i)
      [] pattern = "rag" -> RagCodeEnd(s, i)
      [] pattern = "server" -> ServerCodeEnd(s, i)

\* pattern.findall(s): the matches from left to right, each search resuming
\* where the previous match ended
RECURSIVE FindAllFrom(_, _, _)
FindAllFrom(pattern, s, i) ==
    IF i > Len(s) THEN <<>>
    ELSE LET e == CodeEnd(pattern, s, i)
         IN  IF e = 0 THEN FindAllFrom(pattern, s, i + 1)
             ELSE <<SubSeq(s, i, e - 1)>> \o FindAllFrom(pattern, s, e)

FindAll(pattern, s) == FindAllFrom(pattern, s, 1)


(***************************************************************************)
(* Matching the codes of a question against the codes of an index          *)
(***************************************************************************)
\* the phrases of wants_all_variants
AllVariantsPhrases ==
    { <<"a", "l", "l", " ", "m", "a", "t", "e", "r", "i", "a", "l", " ", "o", "p", "t", "i", "o", "n", "s">>, <<"a", "l", "l", " ", "o", "p", "t", "i", "o", "n", "s">>, <<"a", "l", "l", " ", "v", "a", "r", "i", "a", "n", "t", "s">>,
      <<"a", "l", "l", " ", "v", "a", "r", "i", "a", "t", "i", "o", "n", "s">>, <<"f", "u", "l", "l", " ", "p", "r", "i", "c", "i", "n", "g">>, <<"f", "u", "l", "l", " ", "b", "r", "e", "a", "k", "d", "o", "w", "n">>,
      <<"c", "o", "m", "p", "l", "e", "t", "e", " ", "p", "r", "i", "c", "i", "n", "g">>, <<"a", "l", "l", " ", "f", "i", "n", "i", "s", "h", "e", "s">>, <<"a", "l", "l", " ", "g", "r", "a", "d", "e", "s">>,
      <<"a", "l", "l", " ", "m", "a", "t", "e", "r", "i", "a", "l", "s">>, <<"e", "v", "e", "r", "y", " ", "o", "p", "t", "i", "o", "n">> }

\* wants_all_variants of create_advanced_context
WantsAllVariants(question) ==
    \E phrase \in AllVariantsPhrases : Contains(Lower(question), phrase)

\* potential_skus of create_advanced_context
AdvancedPotentialSkus(question) ==
    LET found == FindAll("advanced", question)
        upper == [j \in 1..Len(found) |-> Strip(Upper(found[j]))]
    IN  SelectSeq(upper, IsValidSku)

\* the text is exactly a base code: the delimited pattern matches and its
\* group is the whole text
IsBaseSku(text) == HasBaseCodeDelimited(text) /\ text = BaseGroup(text)

\* the first element of variants that is a base code, <<>> when there is none
FirstBaseVariant(variants) ==
    LET hit == {j \in 1..Len(variants) : IsBaseSku(Strip(Upper(variants[j])))}
    IN  IF hit = {} THEN <<>>
        ELSE <<variants[CHOOSE j \in hit : \A k \in hit : j <= k]>>

\* for variant in variants: if variant not in matched: matched.append(variant)
RECURSIVE AppendMissing(_, _)
AppendMissing(matched, variants) ==
    IF variants = <<>> THEN matched
    ELSE AppendMissing(IF InSeq(Head(variants), matched) THEN matched
                       ELSE Append(matched, Head(variants)),
                       Tail(variants))

\* the loop over the catalog codes for one query code: st holds matched_skus,
\* found_exact and found_variants
RECURSIVE AdvancedScan(_, _, _, _)
AdvancedScan(keys, i, query_sku, st) ==
    IF i > Len(keys) THEN st
    ELSE LET catalog_sku        == keys[i]
             normalized_query   == SkuValidatorNormalize(query_sku)
             base_code          == BaseCodeOf(normalized_query)
             catalog_upper      == Strip(Upper(catalog_sku))
             normalized_catalog == SkuValidatorNormalize(catalog_sku)
             catalog_base       == BaseCodeOf(catalog_upper)
             query_is_base      == Upper(base_code) = Strip(Upper(query_sku))
             catalog_is_base    == HasBaseCode(catalog_upper)
                                       /\ catalog_upper = BaseGroup(catalog_upper)
             next ==
                 IF normalized_query = normalized_catalog \/ Upper(catalog_sku) = query_sku
                 THEN IF InSeq(catalog_sku, st.matched) THEN st
                      ELSE [st EXCEPT !.matched = <<catalog_sku>> \o @,
                                      !.found_exact = TRUE]
                 ELSE IF Upper(base_code) = Upper(catalog_base)
                         /\ ~InSeq(catalog_sku, st.matched)
                      THEN IF catalog_is_base /\ query_is_base
                           THEN [st EXCEPT !.found_variants = <<catalog_sku>> \o @]
                           ELSE [st EXCEPT !.found_variants = Append(@, catalog_sku)]
                      ELSE st
         IN  AdvancedScan(keys, i + 1, query_sku, next)

\* the wants_all_variants branch: the variants after what is matched already
MergeAllVariants(matched, found_variants) == AppendMissing(matched, found_variants)

\* matched_skus after one query code of create_advanced_context
AdvancedMatchOne(keys, query_sku, wants_all, matched) ==
    LET st == AdvancedScan(keys, 1, query_sku,
                           [matched |-> matched, found_exact |-> FALSE,
                            found_variants |-> <<>>])
        base_code     == BaseCodeOf(SkuValidatorNormalize(query_sku))
        query_is_base == Upper(base_code) = Strip(Upper(query_sku))
        base          == FirstBaseVariant(st.found_variants)
    IN  IF wants_all THEN MergeAllVariants(st.matched, st.found_variants)
        ELSE IF st.found_exact
        THEN IF /\ st.matched # <<>>
                /\ st.matched[1] # <<>>
                /\ ~IsBaseSku(Strip(Upper(st.matched[1])))
                /\ query_is_base
                /\ base # <<>>
                /\ ~InSeq(base[1], st.matched)
             THEN [st.matched EXCEPT ![1] = base[1]]
             ELSE st.matched
        ELSE IF query_is_base
        THEN AppendMissing(IF base # <<>> /\ ~InSeq(base[1], st.matched)
                           THEN <<base[1]>> \o st.matched
                           ELSE st.matched,
                           st.found_variants)
        ELSE AppendMissing(st.matched, st.found_variants)

RECURSIVE AdvancedMatchFrom(_, _, _, _, _)
AdvancedMatchFrom(keys, potential_skus, j, wants_all, matched) ==
    IF j > Len(potential_skus) THEN matched
    ELSE AdvancedMatchFrom(keys, potential_skus, j + 1, wants_all,
                           AdvancedMatchOne(keys, potential_skus[j], wants_all, matched))

\* matched_skus of create_advanced_context for a question and the codes of
\* the index, in the order of the index
AdvancedMatch(question, keys) ==
    IF keys = <<>> THEN <<>>
    ELSE AdvancedMatchFrom(keys, AdvancedPotentialSkus(question), 1,
                           WantsAllVariants(question), <<>>)

\* potential_skus of _build_excel_context
RagPotentialSkus(question) ==
    LET found == FindAll("rag", question)
    IN  [j \in 1..Len(found) |-> Strip(Upper(found[j]))]

\* the exact loop of _build_excel_context for one query code
RECURSIVE RagExact(_, _, _, _)
RagExact(keys, i, query_sku, matched) ==
    IF i > Len(keys) THEN matched
    ELSE RagExact(keys, i + 1, query_sku,
                  IF /\ \/ SkuValidatorNormalize(query_sku) = SkuValidatorNormalize(keys[i])
                        \/ Upper(keys[i]) = query_sku
                     /\ ~InSeq(keys[i], matched)
                  THEN Append(matched, keys[i])
                  ELSE matched)

\* the prefix loop of _build_excel_context for one query code
RECURSIVE RagPrefix(_, _, _, _)
RagPrefix(keys, i, base_code, matched) ==
    IF i > Len(keys) THEN matched
    ELSE RagPrefix(keys, i + 1, base_code,
                   IF StartsWith(Upper(keys[i]), base_code) /\ ~InSeq(keys[i], matched)
                   THEN Append(matched, keys[i])
                   ELSE matched)

RECURSIVE RagMatchFrom(_, _, _, _)
RagMatchFrom(keys, potential_skus, j, matched) ==
    IF j > Len(potential_skus) THEN matched
    ELSE LET query_sku == potential_skus[j]
             exact     == RagExact(keys, 1, query_sku, matched)
         IN  RagMatchFrom(keys, potential_skus, j + 1,
                          IF exact = <<>> /\ HasBaseCode(query_sku)
                          THEN RagPrefix(keys, 1, BaseGroup(query_sku), exact)
                          ELSE exact)

\* matched_skus of _build_excel_context
RagMatch(question, keys) == RagMatchFrom(keys, RagPotentialSkus(question), 1, <<>>)

\* one element of catalog_entries of find_matching_skus
CatalogEntry(catalog_sku) ==
    LET normalized == normalize_sku(catalog_sku)
        base       == StripLrSuffix(normalized)
    IN  [original |-> catalog_sku, normalized |-> normalized, base |-> base,
         canonical |-> CanonicalSku(normalized), canonical_base |-> CanonicalSku(base)]

\* the six tests of find_matching_skus for one query code and one entry
ServerEntryMatches(query_sku, entry) ==
    LET normalized_query     == normalize_sku(query_sku)
        base_query           == StripLrSuffix(normalized_query)
        canonical_query      == CanonicalSku(normalized_query)
        canonical_base_query == CanonicalSku(base_query)
    IN  \/ normalized_query = entry.normalized
        \/ base_query # <<>> /\ base_query = entry.base
        \/ canonical_query # <<>> /\ canonical_query = entry.canonical
        \/ canonical_base_query # <<>> /\ canonical_base_query = entry.canonical_base
        \/ base_query # <<>> /\ Contains(entry.normalized, base_query)
        \/ entry.base # <<>> /\ Contains(normalized_query, entry.base)

RECURSIVE ServerScan(_, _, _, _)
ServerScan(keys, i, query_sku, matches) ==
    IF i > Len(keys) THEN matches
    ELSE ServerScan(keys, i + 1, query_sku,
                    IF ~InSeq(keys[i], matches)
                       /\ ServerEntryMatches(query_sku, CatalogEntry(keys[i]))
                    THEN Append(matches, keys[i])
                    ELSE matches)

RECURSIVE ServerMatchFrom(_, _, _, _)
ServerMatchFrom(keys, potential_skus, j, matches) ==
    IF j > Len(potential_skus) THEN matches
    ELSE ServerMatchFrom(keys, potential_skus, j + 1,
                         ServerScan(keys, 1, potential_skus[j], matches))

\* find_matching_skus
FindMatchingSkus(question, keys) ==
    IF keys = <<>> THEN <<>>
    ELSE ServerMatchFrom(keys, FindAll("server", question), 1, <<>>)


(***************************************************************************)
(* Building the index of a workbook.  A workbook is a sequence of sheets; a *)
(* sheet is the sequence of its rows below the header row, row i being row  *)
(* i of the sheet (the header is row 0); a row is its identifier cell, as   *)
(* str() gives it, and its price cells.  The headers of the price columns   *)
(* are distinct and non-empty, so a value map is keyed by the column.       *)
(***************************************************************************)
Row(code, cells) == [code |-> code, cells |-> cells]

\* index[rec.sku] = rec on a dict kept in insertion order: a code that is
\* already a key keeps its place and gets the new record
DictPut(index, rec) ==
    IF \E j \in 1..Len(index) : index[j].sku = rec.sku
    THEN [j \in 1..Len(index) |-> IF index[j].sku = rec.sku THEN rec ELSE index[j]]
    ELSE Append(index, rec)

\* list(index.keys())
Keys(index) == [j \in 1..Len(index) |-> index[j].sku]

\* the identifier values both processors skip before validating
SkippedCodes == {<<>>, <<"N", "A", "N">>, <<"N", "O", "N", "E">>, <<"Y">>, <<"N">>}

\* prices of _extract_prices_advanced: the columns a value was extracted from
AdvancedPrices(cells) ==
    [c \in {c \in 1..Len(cells) : ExtractPriceAdvanced(cells[c]) # <<>>} |->
        ExtractPriceAdvanced(cells[c])[1]]

\* prices of RAGDocumentProcessor._process_excel
RagPrices(cells) ==
    [c \in {c \in 1..Len(cells) : ExtractPriceRag(cells[c]) # <<>>} |->
        ExtractPriceRag(cells[c])[1]]

\* the row loop of _process_excel_advanced over one sheet
RECURSIVE AdvancedRows(_, _, _, _)
AdvancedRows(rows, sheet, idx, skus) ==
    IF idx > Len(rows) THEN skus
    ELSE LET sku_raw == Strip(rows[idx].code)
         IN  AdvancedRows(rows, sheet, idx + 1,
                 IF Upper(sku_raw) \in SkippedCodes \/ ~IsValidSku(sku_raw) THEN skus
                 ELSE DictPut(skus, [sku |-> SkuValidatorNormalize(sku_raw),
                                     sheet |-> sheet,
                                     prices |-> AdvancedPrices(rows[idx].cells),
                                     row_index |-> idx,
                                     raw_sku |-> sku_raw]))

RECURSIVE AdvancedSheets(_, _, _)
AdvancedSheets(excel_data, sheet, skus) ==
    IF sheet > Len(excel_data) THEN skus
    ELSE AdvancedSheets(excel_data, sheet + 1,
                        AdvancedRows(excel_data[sheet], sheet, 1, skus))

\* structured_data["skus"] of _process_excel_advanced
ProcessExcelAdvanced(excel_data) == AdvancedSheets(excel_data, 1, <<>>)

\* the row loop of RAGDocumentProcessor._process_excel over one sheet
RECURSIVE RagRows(_, _, _, _)
RagRows(rows, sheet, idx, skus) ==
    IF idx > Len(rows) THEN skus
    ELSE LET sku_raw == Strip(rows[idx].code)
             sku     == SkuValidatorNormalize(sku_raw)
         IN  RagRows(rows, sheet, idx + 1,
                 IF Upper(sku_raw) \in SkippedCodes \/ ~IsValidSku(sku_raw) \/ sku = <<>>
                 THEN skus
                 ELSE DictPut(skus, [sku |-> sku,
                                     sheet |-> sheet,
                                     prices |-> RagPrices(rows[idx].cells),
                                     row_index |-> idx,
                                     raw_sku |-> sku_raw]))

RECURSIVE RagSheets(_, _, _)
RagSheets(excel_data, sheet, skus) ==
    IF sheet > Len(excel_data) THEN skus
    ELSE RagSheets(excel_data, sheet + 1, RagRows(excel_data[sheet], sheet, 1, skus))

\* structured_data["skus"] of RAGDocumentProcessor._process_excel
ProcessExcelRag(excel_data) == RagSheets(excel_data, 1, <<>>)

\* sku_pattern of PricingProcessor, ^[A-Z]{1,4}\d{2,} ignoring case
MatchesSkuPattern(text) ==
    LET n == Run(text, Letters, 1)
    IN  n \in 1..4 /\ Run(text, Digits, n + 1) >= 2

PriceProbeRows == 15

MinPricedRows == 3

\* _find_data_start with the header in row 0: the first row from the header
\* on whose first cell looks like a code, else the row after the header.  The
\* header's first cell is a column title, not a code.
FindDataStart(rows) ==
    LET hit == {i \in 1..Len(rows) : MatchesSkuPattern(Upper(Strip(rows[i].code)))}
    IN  IF hit = {} THEN 1 ELSE CHOOSE i \in hit : \A k \in hit : i <= k

\* the widest row: len(df.columns) - 1
Width(rows) ==
    IF rows = <<>> THEN 0
    ELSE LET w == {Len(rows[i].cells) : i \in 1..Len(rows)}
         IN  CHOOSE n \in w : \A k \in w : n >= k

\* the cell of row i in column c, NaN where the row is shorter
CellAt(rows, i, c) ==
    IF c <= Len(rows[i].cells) THEN rows[i].cells[c] ELSE [kind |-> "empty"]

\* _find_price_columns: the columns with at least 3 prices between 10 and
\* 100000 in the first 15 rows from start on
FindPriceColumns(rows, start) ==
    {c \in 1..Width(rows) :
        Cardinality({i \in start..(start + PriceProbeRows - 1) :
                        /\ i <= Len(rows)
                        /\ ParsePrice(CellAt(rows, i, c)) # <<>>
                        /\ InRange(ParsePrice(CellAt(rows, i, c))[1], 10, 100000)})
            >= MinPricedRows}

\* the product loop of PricingProcessor.process_excel
RECURSIVE PricingRows(_, _, _, _)
PricingRows(rows, price_cols, row_idx, products) ==
    IF row_idx > Len(rows) THEN products
    ELSE LET sku    == Upper(Strip(rows[row_idx].code))
             prices == [c \in {c \in price_cols :
                                  ParsePrice(CellAt(rows, row_idx, c)) # <<>>} |->
                           ParsePrice(CellAt(rows, row_idx, c))[1]]
         IN  PricingRows(rows, price_cols, row_idx + 1,
                 IF sku \in {<<>>, <<"N", "A", "N">>, <<"N", "O", "N", "E">>} \/ ~MatchesSkuPattern(sku)
                 THEN products
                 ELSE IF DOMAIN prices # {}
                 THEN Append(products, [sku |-> sku, prices |-> prices,
                                        row |-> row_idx + 1, sheet |-> 1])
                 ELSE products)

\* products of PricingProcessor.process_excel: _select_sheet takes the first
\* sheet when no sheet name says "pricing"
ProcessExcelPricing(excel_data) ==
    IF excel_data = <<>> THEN <<>>
    ELSE LET rows       == excel_data[1]
             data_start == FindDataStart(rows)
         IN  PricingRows(rows, FindPriceColumns(rows, data_start), data_start, <<>>)

\* the words that make extract_structured_pricing take a cell for a description
DescriptionKeywords ==
    { <<"D", "E", "E", "P">>, <<"H", "I", "G", "H">>, <<"W", "I", "D", "E">>, <<"P", "L", "Y", "W", "O", "O", "D">>, <<"P", "A", "N", "E", "L", "S">>, <<"P", "A", "N", "E", "L">>,
      <<"D", "R", "A", "W", "E", "R">>, <<"B", "O", "D", "Y">>, <<"G", "L", "I", "D", "E", "S">>, <<"I", "N", "C", "L", "U", "D", "E", "D">>, <<"V", "A", "N", "I", "T", "Y">>,
      <<"B", "A", "S", "E", " ", "C", "A", "B", "I", "N", "E", "T">>, <<"W", "A", "L", "L", " ", "C", "A", "B", "I", "N", "E", "T">>, <<"F", "U", "L", "L", " ", "H", "E", "I", "G", "H", "T">>, <<"E", "N", "G", "I", "N", "E", "E", "R", "E", "D">>,
      <<"W", "O", "O", "D">>, <<"U", "S", "I", "N", "G">>, <<"S", "I", "D", "E", "-", "M", "O", "U", "N", "T">>, <<"X">>, <<"●">>, <<"S", "P", "E", "C", "I", "F", "I", "C", "A", "T", "I", "O", "N">>,
      <<"D", "E", "S", "C", "R", "I", "P", "T", "I", "O", "N">>, <<"D", "I", "M", "E", "N", "S", "I", "O", "N">> }

MaxSkuLength == 30

\* the row filter of extract_structured_pricing.  Its test for dimensions,
\* \d+"?\s*(DEEP|HIGH|WIDE|X), only matches texts a keyword has rejected.
ServerAcceptsCode(sku_raw) ==
    /\ Len(sku_raw) >= 2
    /\ sku_raw # <<"N", "A", "N">>
    /\ ~StartsWith(sku_raw, <<"*">>)
    /\ ~StartsWith(sku_raw, <<"N", "O", "T", "E">>)
    /\ ~\E keyword \in DescriptionKeywords : Contains(sku_raw, keyword)
    /\ Len(sku_raw) <= MaxSkuLength
    /\ \/ Run(sku_raw, UpperLetters, 1) \in 1..3
             /\ Run(sku_raw, Digits, Run(sku_raw, UpperLetters, 1) + 1) >= 2
       \/ sku_raw \in {<<"F", "L", "A", "T", " ", "P", "N", "L", " ", "3", "/", "4">>, <<"F", "L", "A", "T", " ", "P", "N", "L", " ", "5", "/", "8">>}

\* the price of one cell in extract_structured_pricing: everything but digits
\* and "." is removed (the sign too), a leading "." gets a 0 and a trailing
\* one is dropped
ExtractPriceServer(cell) ==
    IF cell.kind = "empty" THEN <<>>
    ELSE LET kept  == SelectSeq(cell.text, LAMBDA ch : ch \in Digits \cup {"."})
             lead  == IF kept # <<>> /\ Head(kept) = "." THEN <<"0">> \o kept ELSE kept
             trail == IF lead # <<>> /\ lead[Len(lead)] = "."
                      THEN SubSeq(lead, 1, Len(lead) - 1) ELSE lead
             price == IF cell.kind = "number" THEN <<[cell.value EXCEPT !.neg = FALSE]>>
                      ELSE IF kept \in {<<>>, <<".">>} \/ trail = <<>> THEN <<>>
                      ELSE ParseFloat(trail)
         IN  IF price # <<>> /\ PositiveUpTo(price[1], 1000000)
             THEN <<Round2(price[1])>>
             ELSE <<>>

ServerPrices(cells) ==
    [c \in {c \in 1..Len(cells) : ExtractPriceServer(cells[c]) # <<>>} |->
        ExtractPriceServer(cells[c])[1]]

\* the row loop of extract_structured_pricing over one sheet
RECURSIVE ServerRows(_, _, _, _)
ServerRows(rows, sheet, idx, skus) ==
    IF idx > Len(rows) THEN skus
    ELSE LET sku_raw == Upper(Strip(rows[idx].code))
         IN  ServerRows(rows, sheet, idx + 1,
                 IF ~ServerAcceptsCode(sku_raw) THEN skus
                 ELSE DictPut(skus, [sku |-> Strip(SubRuns(sku_raw, Whitespace, <<" ">>)),
                                     sheet |-> sheet,
                                     prices |-> ServerPrices(rows[idx].cells),
                                     row_index |-> idx,
                                     raw_sku |-> sku_raw]))

RECURSIVE ServerSheets(_, _, _)
ServerSheets(excel_data, sheet, skus) ==
    IF sheet > Len(excel_data) THEN skus
    ELSE ServerSheets(excel_data, sheet + 1,
                      ServerRows(excel_data[sheet], sheet, 1, skus))

\* structured_data["skus"] of extract_structured_pricing
ExtractStructuredPricing(excel_data) == ServerSheets(excel_data, 1, <<>>)


(***************************************************************************)
(* Ingesting a workbook                                                    *)
(***************************************************************************)
MaxRows == 4

MaxSheets == 2

\* rows as catalogs hold them: a priced code, a variant without prices, the
\* same code typed differently with other prices, a note, another code
IngestRows ==
    { Row(<<"B", "2", "4">>, <<TextCell(<<"7", "5", "3", ".", "0", "0">>), TextCell(<<"4", "7", "9", ".", "8", "8">>)>>),
      Row(<<"B", "2", "4", " ", "B", "U", "T", "T">>, <<EmptyCell, EmptyCell>>),
      Row(<<"b", "2", "4", " ">>, <<NumberCell(Num(FALSE, <<"9", "9", "9">>, <<"9", "9">>)), TextCell(<<"$", "1", ",", "2", "3", "4", ".", "5", "0">>)>>),
      Row(<<"N", "O", "T", "E">>, <<EmptyCell, TextCell(<<"O", "P", "T", " ", "3", "4", "2">>)>>),
      Row(<<"D", "B", "2", "4">>, <<NumberCell(Num(FALSE, <<"7", "5", "3">>, <<>>)), EmptyCell>>) }

RECURSIVE RowCount(_)
RowCount(excel_data) ==
    IF excel_data = <<>> THEN 0 ELSE Len(Head(excel_data)) + RowCount(Tail(excel_data))

InitIngest ==
    /\ call = "none"
    /\ arg = <<>>
    /\ ret = <<>>
    /\ grid = << <<>> >>
    /\ CacheIdle

\* one more row at the end of the last sheet of the workbook
AddRow ==
    /\ call = "none"
    /\ RowCount(grid) < MaxRows
    /\ \E r \in IngestRows :
          grid' = [grid EXCEPT ![Len(grid)] = Append(@, r)]
    /\ UNCHANGED <<call, arg, ret>>
    /\ UNCHANGED cacheVars

\* one more sheet
AddSheet ==
    /\ call = "none"
    /\ Len(grid) < MaxSheets
    /\ grid' = Append(grid, <<>>)
    /\ UNCHANGED <<call, arg, ret>>
    /\ UNCHANGED cacheVars

IngestAdvanced ==
    /\ call = "none"
    /\ call' = "AdvancedDocumentProcessor._process_excel_advanced"
    /\ ret' = ProcessExcelAdvanced(grid)
    /\ UNCHANGED <<arg, grid>>
    /\ UNCHANGED cacheVars

IngestRag ==
    /\ call = "none"
    /\ call' = "RAGDocumentProcessor._process_excel"
    /\ ret' = ProcessExcelRag(grid)
    /\ UNCHANGED <<arg, grid>>
    /\ UNCHANGED cacheVars

IngestPricing ==
    /\ call = "none"
    /\ call' = "PricingProcessor.process_excel"
    /\ ret' = ProcessExcelPricing(grid)
    /\ UNCHANGED <<arg, grid>>
    /\ UNCHANGED cacheVars

IngestServer ==
    /\ call = "none"
    /\ call' = "extract_structured_pricing"
    /\ ret' = ExtractStructuredPricing(grid)
    /\ UNCHANGED <<arg, grid>>
    /\ UNCHANGED cacheVars

NextIngest ==
    AddRow \/ AddSheet \/ IngestAdvanced \/ IngestRag \/ IngestPricing \/ IngestServer

SpecIngest == InitIngest /\ [][NextIngest]_vars

\* the rows of the workbook as (sheet, row) pairs
Positions == {p \in (1..Len(grid)) \X (1..MaxRows) : p[2] <= Len(grid[p[1]])}

RowAt(p) == grid[p[1]][p[2]]

\* the identifier cell holds a code the validator accepts
HasValidCode(r) ==
    Upper(Strip(r.code)) \notin SkippedCodes /\ IsValidSku(Strip(r.code))

SameCode(r1, r2) ==
    SkuValidatorNormalize(Strip(r1.code)) = SkuValidatorNormalize(Strip(r2.code))

\* C4: two rows with the same normalized code in different sheets or rows are
\* two distinct records of the index, each with its own sheet and row
C4_RepeatedCodeKeptApart ==
    call \in {"AdvancedDocumentProcessor._process_excel_advanced",
              "RAGDocumentProcessor._process_excel"} =>
        \A p1, p2 \in Positions :
            (p1 # p2 /\ HasValidCode(RowAt(p1)) /\ HasValidCode(RowAt(p2))
                /\ SameCode(RowAt(p1), RowAt(p2)))
            => \E j1, j2 \in 1..Len(ret) :
                  /\ j1 # j2
                  /\ ret[j1].sheet = p1[1] /\ ret[j1].row_index = p1[2]
                  /\ ret[j2].sheet = p2[1] /\ ret[j2].row_index = p2[2]

\* no cell of the row gives a value to the processor that was called
NoPriceParsed(r) ==
    \A c \in 1..Len(r.cells) :
        IF call = "PricingProcessor.process_excel"
        THEN ParsePrice(r.cells[c]) = <<>>
        ELSE ExtractPriceAdvanced(r.cells[c]) = <<>>

\* C9: a row with a valid code and no parsable price is a record of the index
\* with an empty value map.  Stated for the rows of the sheet the processor
\* reads whose code no other row repeats.
C9_PricelessRowRetained ==
    call \in {"AdvancedDocumentProcessor._process_excel_advanced",
              "PricingProcessor.process_excel"} =>
        \A p \in Positions :
            (/\ HasValidCode(RowAt(p))
             /\ NoPriceParsed(RowAt(p))
             /\ call = "PricingProcessor.process_excel" => p[1] = 1
             /\ \A q \in Positions : q # p => ~SameCode(RowAt(p), RowAt(q)))
            => \E j \in 1..Len(ret) :
                  /\ ret[j].sku = SkuValidatorNormalize(Strip(RowAt(p).code))
                  /\ DOMAIN ret[j].prices = {}

(***************************************************************************)
(* Asking a question about a catalog                                       *)
(***************************************************************************)
MaxCatalogRows == 3

CatalogRows ==
    { Row(<<"B", "2", "4">>, <<TextCell(<<"7", "5", "3", ".", "0", "0">>), TextCell(<<"4", "7", "9", ".", "8", "8">>)>>),
      Row(<<"B", "2", "4", " ", "B", "U", "T", "T">>, <<EmptyCell, EmptyCell>>),
      Row(<<"D", "B", "2", "4">>, <<NumberCell(Num(FALSE, <<"7", "5", "3">>, <<>>)), EmptyCell>>),
      Row(<<"W", "3", "0", "3", "0">>, <<TextCell(<<"4", "1", "2", ".", "0", "0">>), EmptyCell>>),
      Row(<<"W", "3", "0", "3", "0", " ", "B", "U", "T", "T">>, <<TextCell(<<"4", "5", "5", ".", "0", "0">>), EmptyCell>>),
      Row(<<"W", "3", "0", "3", "0", " ", "S", "D">>, <<EmptyCell, EmptyCell>>) }

QuestionB24 == <<"B", "2", "4">>

QuestionB24Butt == <<"B", "2", "4", " ", "B", "U", "T", "T">>

QuestionPriceOfB24 == <<"W", "h", "a", "t", " ", "i", "s", " ", "t", "h", "e", " ", "p", "r", "i", "c", "e", " ", "o", "f", " ", "B", "2", "4", "?">>

QuestionAllVariantsOfW3030 == <<"s", "h", "o", "w", " ", "a", "l", "l", " ", "v", "a", "r", "i", "a", "n", "t", "s", " ", "o", "f", " ", "w", "3", "0", "3", "0">>

QuestionW3030AllVariants == <<"w", "3", "0", "3", "0", " ", "a", "l", "l", " ", "v", "a", "r", "i", "a", "n", "t", "s">>

QuestionLowerHyphen == <<"b", "-", "2", "4">>

QuestionSpaced == <<"B", " ", "2", "4">>

QuestionW3030 == <<"W", "3", "0", "3", "0">>

\* a question that names two codes
QuestionB24AndW3030 == <<"B", "2", "4", ",", " ", "W", "3", "0", "3", "0">>

Questions ==
    {QuestionB24, QuestionB24Butt, QuestionPriceOfB24, QuestionAllVariantsOfW3030,
     QuestionW3030AllVariants, QuestionLowerHyphen, QuestionSpaced,
     QuestionW3030, QuestionB24AndW3030}

InitQuery ==
    /\ call = "none"
    /\ arg = <<>>
    /\ ret = <<>>
    /\ grid = << <<>> >>
    /\ CacheIdle

\* one more row in the catalog's sheet
AddCatalogRow ==
    /\ call = "none"
    /\ Len(grid[1]) < MaxCatalogRows
    /\ \E r \in CatalogRows : grid' = <<Append(grid[1], r)>>
    /\ UNCHANGED <<call, arg, ret>>
    /\ UNCHANGED cacheVars

\* create_advanced_context on a catalog that is not cached yet
AskAdvanced ==
    /\ call = "none"
    /\ \E question \in Questions :
          LET skus == Keys(ProcessExcelAdvanced(grid))
          IN  /\ arg' = question
              /\ ret' = [skus |-> skus,
                         potential_skus |-> AdvancedPotentialSkus(question),
                         matched |-> AdvancedMatch(question, skus)]
    /\ call' = "create_advanced_context"
    /\ UNCHANGED grid
    /\ UNCHANGED cacheVars

\* RAGDocumentProcessor._process_excel with a question, on a catalog that is
\* not cached yet: _build_excel_context on the index it has built
AskRag ==
    /\ call = "none"
    /\ \E question \in Questions :
          LET skus == Keys(ProcessExcelRag(grid))
          IN  /\ arg' = question
              /\ ret' = [skus |-> skus,
                         potential_skus |-> RagPotentialSkus(question),
                         matched |-> IF skus = <<>> THEN <<>>
                                     ELSE RagMatch(question, skus)]
    /\ call' = "_build_excel_context"
    /\ UNCHANGED grid
    /\ UNCHANGED cacheVars

\* build_smart_context: find_matching_skus on extract_structured_pricing
AskServer ==
    /\ call = "none"
    /\ \E question \in Questions :
          LET skus == Keys(ExtractStructuredPricing(grid))
          IN  /\ arg' = question
              /\ ret' = [skus |-> skus,
                         potential_skus |-> FindAll("server", question),
                         matched |-> FindMatchingSkus(question, skus)]
    /\ call' = "find_matching_skus"
    /\ UNCHANGED grid
    /\ UNCHANGED cacheVars

NextQuery == AddCatalogRow \/ AskAdvanced \/ AskRag \/ AskServer

SpecQuery == InitQuery /\ [][NextQuery]_vars

Matchers == {"create_advanced_context", "_build_excel_context", "find_matching_skus"}

\* the normalized form the matcher that was called compares
NormalizedBy(matcher, text) ==
    IF matcher = "find_matching_skus" THEN normalize_sku(text)
    ELSE SkuValidatorNormalize(text)

ExactMatch(matcher, token, sku) ==
    NormalizedBy(matcher, token) = NormalizedBy(matcher, sku)

BaseExactMatch(matcher, token, sku) ==
    BaseCodeOf(NormalizedBy(matcher, token)) = BaseCodeOf(NormalizedBy(matcher, sku))

\* C3: when a catalog code matches the query token exactly, no code that
\* matches it only by prefix or substring (neither exactly nor by its base
\* code) is returned for that token
C3_StrictPrecedence ==
    (/\ call \in Matchers
     /\ Len(ret.potential_skus) = 1
     /\ \E j \in 1..Len(ret.skus) : ExactMatch(call, ret.potential_skus[1], ret.skus[j]))
    => \A j \in 1..Len(ret.matched) :
          \/ ExactMatch(call, ret.potential_skus[1], ret.matched[j])
          \/ BaseExactMatch(call, ret.potential_skus[1], ret.matched[j])

Elements(list) == {list[j] : j \in 1..Len(list)}

\* C5: with the records B24 (priced) and B24 BUTT (no prices) in the index,
\* the question "B24" returns B24 only and the question "B24 BUTT" returns
\* B24 BUTT only
C5_B24Scenario ==
    (call \in Matchers /\ Elements(ret.skus) = {<<"B", "2", "4">>, <<"B", "2", "4", " ", "B", "U", "T", "T">>})
    => /\ arg = QuestionB24 => ret.matched = <<<<"B", "2", "4">>>>
       /\ arg = QuestionB24Butt => ret.matched = <<<<"B", "2", "4", " ", "B", "U", "T", "T">>>>

\* C6: with W3030, W3030 BUTT and W3030 SD in the catalog, in any order, a
\* question for w3030 that asks for all variants returns the three records
\* with W3030 first
C6_AllVariantsBaseFirst ==
    (/\ call = "create_advanced_context"
     /\ arg \in {QuestionAllVariantsOfW3030, QuestionW3030AllVariants}
     /\ Elements(ret.skus) = {<<"W", "3", "0", "3", "0">>, <<"W", "3", "0", "3", "0", " ", "B", "U", "T", "T">>, <<"W", "3", "0", "3", "0", " ", "S", "D">>})
    => /\ Len(ret.matched) = 3
       /\ Elements(ret.matched) = Elements(ret.skus)
       /\ ret.matched[1] = <<"W", "3", "0", "3", "0">>

\* C16: with the record B24 in the index, a question that writes the code as
\* "B24", "b-24" or "B 24" resolves to the record B24
C16_WrittenFormsResolve ==
    (/\ call \in {"create_advanced_context", "find_matching_skus"}
     /\ arg \in {QuestionB24, QuestionLowerHyphen, QuestionSpaced}
     /\ <<"B", "2", "4">> \in Elements(ret.skus))
    => <<"B", "2", "4">> \in Elements(ret.matched)

\* the records the matcher that was called returns for a question
MatchedBy(matcher, question, skus) ==
    IF matcher = "create_advanced_context" THEN AdvancedMatch(question, skus)
    ELSE IF skus = <<>> THEN <<>> ELSE RagMatch(question, skus)

\* C17: the records returned for the question that names B24 and W3030 are
\* the records returned for B24 asked alone together with the records
\* returned for W3030 asked alone
C17_TokensIndependent ==
    (/\ call \in {"create_advanced_context", "_build_excel_context"}
     /\ arg = QuestionB24AndW3030)
    => /\ ret.potential_skus = <<QuestionB24, QuestionW3030>>
       /\ Elements(ret.matched) =
             Elements(MatchedBy(call, QuestionB24, ret.skus))
                \cup Elements(MatchedBy(call, QuestionW3030, ret.skus))

(***************************************************************************)
(* The processed-file cache (file_cache.py).  A dict is a function; what is *)
(* cached for a document is the size of its index and the number of the    *)
(* build that produced it; a timestamp carries, next to the time, the      *)
(* number of the build it was stored for.                                  *)
(***************************************************************************)
CACHE_TTL == 300

MinCachedSkus == 100

\* d[k] = v
DictSet(d, k, v) == [x \in DOMAIN d \cup {k} |-> IF x = k THEN v ELSE d[x]]

\* d without the keys in ks
DictRemove(d, ks) ==
    IF DOMAIN d \subseteq ks THEN <<>> ELSE [x \in DOMAIN d \ ks |-> d[x]]

\* get_file_hash: the digest of the path and the modification time; two
\* documents have the same digest only if both are the same
FileHash(f) == [path |-> f.path, mtime |-> f.mtime]

\* full_key
FullKey(f, cache_key) == [file_hash |-> FileHash(f), cache_key |-> cache_key]

\* get_cached_data without the test of the age: an entry is returned however
\* long ago it was stored
GetCachedDataAnyAge(fc, ts, f, cache_key, t) ==
    LET full_key == FullKey(f, cache_key)
    IN  IF full_key \in DOMAIN fc
        THEN [data |-> <<fc[full_key]>>, fc |-> fc, ts |-> ts]
        ELSE [data |-> <<>>, fc |-> fc, ts |-> ts]

\* get_cached_data run without interruption: what it returns (<<>> for None)
\* and the two dicts as it leaves them
GetCachedData(fc, ts, f, cache_key, t) ==
    LET full_key == FullKey(f, cache_key)
    IN  IF full_key \in DOMAIN fc
        THEN IF full_key \in DOMAIN ts
             THEN IF t - ts[full_key].time < CACHE_TTL
                  THEN [data |-> <<fc[full_key]>>, fc |-> fc, ts |-> ts]
                  ELSE [data |-> <<>>, fc |-> DictRemove(fc, {full_key}),
                        ts |-> DictRemove(ts, {full_key})]
             ELSE [data |-> <<fc[full_key]>>, fc |-> fc, ts |-> ts]
        ELSE [data |-> <<>>, fc |-> fc, ts |-> ts]

\* set_cached_data run without interruption
SetCachedData(fc, ts, f, cache_key, data, t) ==
    LET full_key == FullKey(f, cache_key)
    IN  [fc |-> DictSet(fc, full_key, data),
         ts |-> DictSet(ts, full_key, [time |-> t, of |-> data.build])]

\* clear_cache(file_path): every key that starts with the digest of the file
ClearCache(fc, ts, f) ==
    LET keys_to_remove == {k \in DOMAIN fc : k.file_hash = FileHash(f)}
    IN  [fc |-> DictRemove(fc, keys_to_remove), ts |-> DictRemove(ts, keys_to_remove)]

\* the cache holds an entry for the document as it is now, stored less than
\* CACHE_TTL ago
Fresh(cache_key) ==
    /\ FullKey(file, cache_key) \in DOMAIN file_cache
    /\ FullKey(file, cache_key) \in DOMAIN cache_timestamps
    /\ now - cache_timestamps[FullKey(file, cache_key)].time < CACHE_TTL

(***************************************************************************)
(* Queries against a cached document, one at a time (the request handler   *)
(* runs them on the event loop)                                            *)
(***************************************************************************)
MaxTicks == 2

MaxBuilds == 3

MaxMtime == 2

FileSizes == {0, MinCachedSkus - 1, MinCachedSkus}

InitCache ==
    /\ call = "none"
    /\ arg = <<>>
    /\ ret = <<>>
    /\ grid = <<>>
    /\ file \in {[path |-> "catalog.xlsx", mtime |-> 1, codes |-> n] : n \in FileSizes}
    /\ file_cache = <<>>
    /\ cache_timestamps = <<>>
    /\ now = 0
    /\ builds = 0
    /\ threads = <<>>

\* reading the workbook and building its index; a workbook without codes
\* gives an error and nothing is cached
Rebuild(fc, ts, cache_key) ==
    IF file.codes = 0
    THEN [fc |-> fc, ts |-> ts, result |-> <<>>]
    ELSE LET data   == [skus |-> file.codes, build |-> builds + 1]
             stored == SetCachedData(fc, ts, file, cache_key, data, now)
         IN  [fc |-> stored.fc, ts |-> stored.ts, result |-> <<data>>]

\* AdvancedDocumentProcessor._process_excel_advanced: a cached index with
\* fewer than 100 codes is cleared and built again
QueryAdvanced ==
    /\ builds < MaxBuilds
    /\ LET got    == GetCachedData(file_cache, cache_timestamps, file,
                                   "excel_advanced_processed", now)
           reuse  == got.data # <<>> /\ got.data[1].skus >= MinCachedSkus
           clear  == IF got.data # <<>> THEN ClearCache(got.fc, got.ts, file)
                     ELSE [fc |-> got.fc, ts |-> got.ts]
           built  == Rebuild(clear.fc, clear.ts, "excel_advanced_processed")
       IN  /\ file_cache' = IF reuse THEN got.fc ELSE built.fc
           /\ cache_timestamps' = IF reuse THEN got.ts ELSE built.ts
           /\ builds' = IF reuse THEN builds ELSE builds + 1
           /\ ret' = [fresh |-> Fresh("excel_advanced_processed"),
                      rebuilt |-> ~reuse,
                      result |-> IF reuse THEN got.data ELSE built.result]
    /\ call' = "AdvancedDocumentProcessor._process_excel_advanced"
    /\ UNCHANGED <<arg, grid, file, now, threads>>

\* RAGDocumentProcessor._process_excel
QueryRag ==
    /\ builds < MaxBuilds
    /\ LET got   == GetCachedData(file_cache, cache_timestamps, file,
                                  "excel_rag_processed", now)
           reuse == got.data # <<>>
           built == Rebuild(got.fc, got.ts, "excel_rag_processed")
       IN  /\ file_cache' = IF reuse THEN got.fc ELSE built.fc
           /\ cache_timestamps' = IF reuse THEN got.ts ELSE built.ts
           /\ builds' = IF reuse THEN builds ELSE builds + 1
           /\ ret' = [fresh |-> Fresh("excel_rag_processed"),
                      rebuilt |-> ~reuse,
                      result |-> IF reuse THEN got.data ELSE built.result]
    /\ call' = "RAGDocumentProcessor._process_excel"
    /\ UNCHANGED <<arg, grid, file, now, threads>>

\* clear_cache(file_path)
ClearFile ==
    /\ file_cache # <<>>
    /\ LET cleared == ClearCache(file_cache, cache_timestamps, file)
       IN  file_cache' = cleared.fc /\ cache_timestamps' = cleared.ts
    /\ call' = "clear_cache"
    /\ ret' = <<>>
    /\ UNCHANGED <<arg, grid, file, now, builds, threads>>

\* clear_cache()
ClearAll ==
    /\ file_cache # <<>>
    /\ file_cache' = <<>>
    /\ cache_timestamps' = <<>>
    /\ call' = "clear_cache"
    /\ ret' = <<>>
    /\ UNCHANGED <<arg, grid, file, now, builds, threads>>

\* time passes: one second less than the time to live, or all of it
Tick ==
    /\ \E d \in {CACHE_TTL - 1, CACHE_TTL} :
          /\ now + d <= MaxTicks * CACHE_TTL
          /\ now' = now + d
    /\ UNCHANGED <<call, arg, ret, grid, file, file_cache, cache_timestamps, builds, threads>>

\* the document is written again: its modification time changes
TouchFile ==
    /\ file.mtime < MaxMtime
    /\ file' = [file EXCEPT !.mtime = @ + 1]
    /\ UNCHANGED <<call, arg, ret, grid, file_cache, cache_timestamps, now, builds, threads>>

NextCache == QueryAdvanced \/ QueryRag \/ ClearFile \/ ClearAll \/ Tick \/ TouchFile

SpecCache == InitCache /\ [][NextCache]_vars

\* C7: a query that finds an entry for the unchanged document that has not
\* expired and has not been invalidated reuses it and does not rebuild
C7_CacheReuse ==
    (call \in {"AdvancedDocumentProcessor._process_excel_advanced",
               "RAGDocumentProcessor._process_excel"}
        /\ ret.fresh)
    => ~ret.rebuilt

(***************************************************************************)
(* The cache under threads: get_cached_data and set_cached_data one        *)
(* statement at a time                                                     *)
(***************************************************************************)
NumReaders == 2

MaxWrites == 2

Writer == 0

Readers == 1..NumReaders

TheKey == FullKey(file, "excel_rag_processed")

IdleThread == [pc |-> "idle", data |-> <<>>, stamp |-> <<>>, result |-> <<>>, error |-> FALSE]

InitCacheThreads ==
    /\ call = "none"
    /\ arg = <<>>
    /\ ret = <<>>
    /\ grid = <<>>
    /\ file = [path |-> "catalog.xlsx", mtime |-> 1, codes |-> MinCachedSkus]
    /\ file_cache = <<>>
    /\ cache_timestamps = <<>>
    /\ now = 0
    /\ builds = 0
    /\ threads = [t \in {Writer} \cup Readers |-> IdleThread]

Untouched == <<call, arg, ret, grid, file>>

\* the writer has built an index and enters set_cached_data with it
BeginSet ==
    /\ threads[Writer].pc = "idle"
    /\ builds < MaxWrites
    /\ builds' = builds + 1
    /\ threads' = [threads EXCEPT ![Writer] =
                      [@ EXCEPT !.pc = "80", !.data = <<[skus |-> file.codes,
                                                         build |-> builds + 1]>>]]
    /\ UNCHANGED <<file_cache, cache_timestamps, now>>
    /\ UNCHANGED Untouched

\* line 80: _file_cache[full_key] = data
Set80 ==
    /\ threads[Writer].pc = "80"
    /\ file_cache' = DictSet(file_cache, TheKey, threads[Writer].data[1])
    /\ threads' = [threads EXCEPT ![Writer].pc = "81"]
    /\ UNCHANGED <<cache_timestamps, now, builds>>
    /\ UNCHANGED Untouched

\* line 81: _cache_timestamps[full_key] = time.time()
Set81 ==
    /\ threads[Writer].pc = "81"
    /\ cache_timestamps' = DictSet(cache_timestamps, TheKey,
                                   [time |-> now, of |-> threads[Writer].data[1].build])
    /\ threads' = [threads EXCEPT ![Writer].pc = "idle"]
    /\ UNCHANGED <<file_cache, now, builds>>
    /\ UNCHANGED Untouched

\* a reader enters get_cached_data
BeginGet(r) ==
    /\ threads[r].pc \in {"idle", "done"}
    /\ threads' = [threads EXCEPT ![r] = [IdleThread EXCEPT !.pc = "50"]]
    /\ UNCHANGED <<file_cache, cache_timestamps, now, builds>>
    /\ UNCHANGED Untouched

\* line 50: if full_key in _file_cache, else the miss of line 65
Get50(r) ==
    /\ threads[r].pc = "50"
    /\ threads' = [threads EXCEPT ![r].pc =
                      IF TheKey \in DOMAIN file_cache THEN "51" ELSE "done"]
    /\ UNCHANGED <<file_cache, cache_timestamps, now, builds>>
    /\ UNCHANGED Untouched

\* line 51: if full_key in _cache_timestamps
Get51(r) ==
    /\ threads[r].pc = "51"
    /\ threads' = [threads EXCEPT ![r].pc =
                      IF TheKey \in DOMAIN cache_timestamps THEN "52" ELSE "62"]
    /\ UNCHANGED <<file_cache, cache_timestamps, now, builds>>
    /\ UNCHANGED Untouched

\* lines 52 and 53: the timestamp is read and the age compared; a KeyError
\* when the timestamp has been deleted in the meantime
Get52(r) ==
    /\ threads[r].pc = "52"
    /\ threads' = [threads EXCEPT ![r] =
          IF TheKey \notin DOMAIN cache_timestamps
          THEN [@ EXCEPT !.pc = "done", !.error = TRUE]
          ELSE [@ EXCEPT !.stamp = <<cache_timestamps[TheKey]>>,
                         !.pc = IF now - cache_timestamps[TheKey].time < CACHE_TTL
                                THEN "55" ELSE "59"]]
    /\ UNCHANGED <<file_cache, cache_timestamps, now, builds>>
    /\ UNCHANGED Untouched

\* lines 55 and 62: return _file_cache[full_key]
GetReturn(r) ==
    /\ threads[r].pc \in {"55", "62"}
    /\ threads' = [threads EXCEPT ![r] =
          IF TheKey \notin DOMAIN file_cache
          THEN [@ EXCEPT !.pc = "done", !.error = TRUE]
          ELSE [@ EXCEPT !.pc = "done", !.result = <<file_cache[TheKey]>>]]
    /\ UNCHANGED <<file_cache, cache_timestamps, now, builds>>
    /\ UNCHANGED Untouched

\* line 59: del _file_cache[full_key]
Get59(r) ==
    /\ threads[r].pc = "59"
    /\ IF TheKey \in DOMAIN file_cache
       THEN /\ file_cache' = DictRemove(file_cache, {TheKey})
            /\ threads' = [threads EXCEPT ![r].pc = "60"]
       ELSE /\ file_cache' = file_cache
            /\ threads' = [threads EXCEPT ![r] = [@ EXCEPT !.pc = "done", !.error = TRUE]]
    /\ UNCHANGED <<cache_timestamps, now, builds>>
    /\ UNCHANGED Untouched

\* line 60: del _cache_timestamps[full_key], then the miss of line 65
Get60(r) ==
    /\ threads[r].pc = "60"
    /\ IF TheKey \in DOMAIN cache_timestamps
       THEN /\ cache_timestamps' = DictRemove(cache_timestamps, {TheKey})
            /\ threads' = [threads EXCEPT ![r].pc = "done"]
       ELSE /\ cache_timestamps' = cache_timestamps
            /\ threads' = [threads EXCEPT ![r] = [@ EXCEPT !.pc = "done", !.error = TRUE]]
    /\ UNCHANGED <<file_cache, now, builds>>
    /\ UNCHANGED Untouched

\* the time to live passes
Expire ==
    /\ now < MaxTicks * CACHE_TTL
    /\ now' = now + CACHE_TTL
    /\ UNCHANGED <<file_cache, cache_timestamps, builds, threads>>
    /\ UNCHANGED Untouched

NextCacheThreads ==
    \/ BeginSet \/ Set80 \/ Set81 \/ Expire
    \/ \E r \in Readers :
          BeginGet(r) \/ Get50(r) \/ Get51(r) \/ Get52(r) \/ GetReturn(r)
              \/ Get59(r) \/ Get60(r)

SpecCacheThreads == InitCacheThreads /\ [][NextCacheThreads]_vars

MaxChunks == 4

MaxScore == 2

SubSeqUpTo(s, k) == SubSeq(s, 1, IF k < Len(s) THEN k ELSE Len(s))

\* the chunks with a positive score, in the order of the document
Scored(chunks) == SelectSeq(chunks, LAMBDA chunk : chunk.score > 0)

\* np.argsort of the scores: an ordering of the indices by ascending score;
\* the default sort is not stable, so equal scores come in any order
ArgSorts(scored) ==
    {p \in [1..Len(scored) -> 1..Len(scored)] :
        /\ \A i, j \in 1..Len(scored) : i # j => p[i] # p[j]
        /\ \A i, j \in 1..Len(scored) : i < j => scored[p[i]].score <= scored[p[j]].score}

\* [::-1]
Reversed(s) == [i \in 1..Len(s) |-> s[Len(s) + 1 - i]]

\* what retrieve returns when argsort gives the ordering p
RetrieveWith(chunks, top_k, p) ==
    LET scored_chunks  == Scored(chunks)
        sorted_indices == Reversed(p)
        top_indices    == SubSeqUpTo(sorted_indices, top_k)
    IN  [i \in 1..Len(top_indices) |-> scored_chunks[top_indices[i]]]

InitRetrieve ==
    /\ call = "none"
    /\ arg = 0
    /\ ret = <<>>
    /\ grid = <<>>
    /\ CacheIdle

\* one more chunk in the document
AddChunk ==
    /\ call = "none"
    /\ Len(grid) < MaxChunks
    /\ \E score \in 0..MaxScore :
          grid' = Append(grid, [index |-> Len(grid) + 1, score |-> score])
    /\ UNCHANGED <<call, arg, ret>>
    /\ UNCHANGED cacheVars

\* IntelligentRetrieval.retrieve
Retrieve ==
    /\ call = "none"
    /\ \E top_k \in 1..MaxChunks :
          /\ arg' = top_k
          /\ \E p \in ArgSorts(Scored(grid)) : ret' = RetrieveWith(grid, top_k, p)
    /\ call' = "IntelligentRetrieval.retrieve"
    /\ UNCHANGED grid
    /\ UNCHANGED cacheVars

NextRetrieve == AddChunk \/ Retrieve

SpecRetrieve == InitRetrieve /\ [][NextRetrieve]_vars

\* the one ordering by descending score in which equal scores keep the order
\* of the candidates
StableDescending(scored) ==
    LET p == CHOOSE q \in [1..Len(scored) -> 1..Len(scored)] :
                 /\ \A i, j \in 1..Len(scored) : i # j => q[i] # q[j]
                 /\ \A i, j \in 1..Len(scored) : i < j =>
                       \/ scored[q[i]].score > scored[q[j]].score
                       \/ scored[q[i]].score = scored[q[j]].score /\ q[i] < q[j]
    IN  [i \in 1..Len(scored) |-> scored[p[i]]]

\* C10: retrieve returns the first top_k of the candidates ordered by
\* descending score, equal scores in their original order
C10_StableTopK ==
    call = "IntelligentRetrieval.retrieve"
    => ret = SubSeqUpTo(StableDescending(Scored(grid)), arg)


(***************************************************************************)
(* The identifier signal of the relevance scorer (intelligent_retrieval.py, *)
(* _score_chunk).  Scores are in tenths.                                   *)
(***************************************************************************)
MaxQuestionSkus == 2

MaxCandidates == 2

\* sku.replace(" ", "").replace("-", "").replace("_", "")
ScoreNormalize(sku) == SelectSeq(sku, LAMBDA c : c \notin {" ", "-", "_"})

\* the score one question code gives the chunk: <<score, exact>>; the exact
\* match breaks the loop
SkuMatchOne(q_sku, chunk_sku, sku_match_score) ==
    LET q_normalized     == ScoreNormalize(q_sku)
        chunk_normalized == ScoreNormalize(chunk_sku)
        Max(a, b)        == IF a > b THEN a ELSE b
    IN  IF q_normalized = chunk_normalized \/ chunk_sku = q_sku
        THEN <<10, TRUE>>
        ELSE IF StartsWith(chunk_normalized, q_normalized)
                  \/ StartsWith(q_normalized, chunk_normalized)
        THEN <<Max(sku_match_score, 9), FALSE>>
        ELSE IF Contains(chunk_normalized, q_normalized)
                  \/ Contains(q_normalized, chunk_normalized)
        THEN <<Max(sku_match_score, 6), FALSE>>
        ELSE IF /\ HasBaseCode(q_normalized)
                /\ HasBaseCode(chunk_normalized)
                /\ BaseGroup(q_normalized) = BaseGroup(chunk_normalized)
        THEN <<Max(sku_match_score, 8), FALSE>>
        ELSE <<sku_match_score, FALSE>>

RECURSIVE SkuMatchFrom(_, _, _, _)
SkuMatchFrom(question_skus, chunk_sku, i, sku_match_score) ==
    IF i > Len(question_skus) THEN sku_match_score
    ELSE LET one == SkuMatchOne(question_skus[i], chunk_sku, sku_match_score)
         IN  IF one[2] THEN one[1]
             ELSE SkuMatchFrom(question_skus, chunk_sku, i + 1, one[1])

\* sku_match_score of _score_chunk for the codes of the question and the code
\* of the chunk
SkuMatchScore(skus, sku) ==
    LET chunk_sku     == Upper(Strip(sku))
        question_skus == [i \in 1..Len(skus) |-> Upper(Strip(skus[i]))]
    IN  IF question_skus # <<>> /\ chunk_sku # <<>>
        THEN SkuMatchFrom(question_skus, chunk_sku, 1, 0)
        ELSE 0

ScoredCodes ==
    {<<"B", "2", "4">>, <<"b", "-", "2", "4">>, <<"B", "2", "4", " ", "F", "H">>, <<"B", "2", "4", " ", "B", "U", "T", "T">>, <<"D", "B", "2", "4">>, <<"B", "2">>}

InitScore ==
    /\ call = "none"
    /\ arg = <<>>
    /\ ret = <<>>
    /\ grid = <<>>
    /\ CacheIdle

\* one more code in the question
AddQuestionSku ==
    /\ call = "none"
    /\ Len(arg) < MaxQuestionSkus
    /\ \E sku \in ScoredCodes : arg' = Append(arg, sku)
    /\ UNCHANGED <<call, ret, grid>>
    /\ UNCHANGED cacheVars

\* one more candidate chunk, with its code
AddCandidate ==
    /\ call = "none"
    /\ Len(grid) < MaxCandidates
    /\ \E sku \in ScoredCodes : grid' = Append(grid, sku)
    /\ UNCHANGED <<call, arg, ret>>
    /\ UNCHANGED cacheVars

\* _score_chunk on every candidate
ScoreChunks ==
    /\ call = "none"
    /\ grid # <<>>
    /\ ret' = [i \in 1..Len(grid) |-> SkuMatchScore(arg, grid[i])]
    /\ call' = "IntelligentRetrieval._score_chunk"
    /\ UNCHANGED <<arg, grid>>
    /\ UNCHANGED cacheVars

NextScore == AddQuestionSku \/ AddCandidate \/ ScoreChunks

SpecScore == InitScore /\ [][NextScore]_vars

\* the kind by which a candidate code matches a question code, as the scorer
\* compares them: 4 exact, 3 base-match, 2 prefix, 1 substring, 0 none
MatchKind(q, c) ==
    LET qn == ScoreNormalize(Upper(Strip(q)))
        cn == ScoreNormalize(Upper(Strip(c)))
    IN  IF qn = cn THEN 4
        ELSE IF BaseCodeOf(qn) = BaseCodeOf(cn) THEN 3
        ELSE IF StartsWith(cn, qn) \/ StartsWith(qn, cn) THEN 2
        ELSE IF Contains(cn, qn) \/ Contains(qn, cn) THEN 1
        ELSE 0

\* C11: of two candidates that match the one code of the question, the one
\* that matches by the higher kind (exact > base-match > prefix > substring)
\* has the strictly higher identifier score
C11_KindOrder ==
    (call = "IntelligentRetrieval._score_chunk" /\ Len(arg) = 1)
    => \A i, j \in 1..Len(grid) :
          (MatchKind(arg[1], grid[i]) > MatchKind(arg[1], grid[j])
              /\ MatchKind(arg[1], grid[j]) > 0)
          => ret[i] > ret[j]


(***************************************************************************)
(* Schema inference: finding the identifier column and the value columns   *)
(* of a sheet.  A sheet is the sequence of its columns; a column is its    *)
(* header, as fillna("").astype(str) gives it, and its cells in the data   *)
(* rows below the header row.  Column indices are those of the code, from  *)
(* 0.                                                                      *)
(***************************************************************************)
NumDataRows == 5

Column(header, cells) == [header |-> header, cells |-> cells]

ContainsAny(s, keywords) == \E keyword \in keywords : Contains(s, keyword)

\* [0, ..., n - 1]
Indices(n) == [k \in 1..n |-> k - 1]

\* range(lo, hi)
Range(lo, hi) == IF hi > lo THEN [k \in 1..(hi - lo) |-> lo + k - 1] ELSE <<>>

Min(a, b) == IF a < b THEN a ELSE b

RECURSIVE NatDigits(_)
NatDigits(n) == IF n < 10 THEN <<DigitSeq[n + 1]>> ELSE NatDigits(n \div 10) \o <<DigitSeq[(n % 10) + 1]>>

\* str(cell) for a cell of a DataFrame
CellStr(cell) ==
    IF cell.kind = "empty" THEN <<"n", "a", "n">>
    ELSE IF cell.kind = "text" THEN cell.text
    ELSE (IF cell.value.neg THEN <<"-">> ELSE <<>>) \o NatDigits(cell.value.units) \o <<".">>
            \o (IF cell.value.frac = <<>> THEN <<"0">> ELSE cell.value.frac)

\* the first rows data rows of a column
Sample(column, rows) == SubSeq(column.cells, 1, Min(rows, Len(column.cells)))

CountOf(cells, Test(_)) == Len(SelectSeq(cells, Test))

SkuKeywordsAdvanced == {<<"s", "k", "u">>, <<"c", "o", "d", "e">>, <<"i", "t", "e", "m">>, <<"p", "a", "r", "t">>, <<"c", "a", "t", "a", "l", "o", "g">>, <<"p", "r", "o", "d", "u", "c", "t">>}

SkuSampleColumns == 10

SkuSampleRows == 20

SkuCountCap == 10

MinSkuCount == 5

\* sku_count of _find_sku_column_advanced for one column
SkuCount(column) ==
    Min(SkuCountCap,
        CountOf(Sample(column, SkuSampleRows), LAMBDA cell : IsValidSku(Strip(CellStr(cell)))))

\* AdvancedDocumentProcessor._find_sku_column_advanced
FindSkuColumnAdvanced(columns) ==
    LET named   == {i \in 0..(Len(columns) - 1) :
                       ContainsAny(Lower(Strip(columns[i + 1].header)), SkuKeywordsAdvanced)}
        scanned == 0..(Min(SkuSampleColumns, Len(columns)) - 1)
        best    == {i \in scanned :
                       /\ SkuCount(columns[i + 1]) > 0
                       /\ \A j \in scanned :
                             \/ SkuCount(columns[j + 1]) < SkuCount(columns[i + 1])
                             \/ SkuCount(columns[j + 1]) = SkuCount(columns[i + 1]) /\ j >= i}
    IN  IF named # {} THEN CHOOSE i \in named : \A j \in named : i <= j
        ELSE IF best # {} /\ (\E i \in best : SkuCount(columns[i + 1]) >= MinSkuCount)
        THEN CHOOSE i \in best : TRUE
        ELSE IF /\ Len(columns) > 2
                /\ columns[3].cells # <<>>
                /\ IsValidSku(Strip(CellStr(columns[3].cells[1])))
        THEN 2
        ELSE 0

GradePatterns ==
    {<<"e", "l", "i", "t", "e">>, <<"p", "r", "e", "m", "i", "u", "m">>, <<"p", "r", "i", "m", "e">>, <<"c", "h", "o", "i", "c", "e">>, <<"c", "h", "e", "r", "r", "y">>, <<"m", "a", "p", "l", "e">>, <<"o", "a", "k">>,
     <<"p", "a", "i", "n", "t", "e", "d">>, <<"d", "u", "r", "a", "f", "o", "r", "m">>}

MetadataKeywords == {<<"r", "u", "s", "h">>, <<"c", "f">>, <<"a", "w">>, <<"r", "e", "c", "e", "i", "v", "e", "s">>, <<"s", "p", "e", "c", "i", "e", "s">>, <<"y">>, <<"n">>}

DimensionKeywords == {<<"d", "e", "e", "p">>, <<"h", "i", "g", "h">>, <<"w", "i", "d", "e">>, <<"x">>, <<"i", "n", "c", "h">>, <<"d", "i", "m", "e", "n", "s", "i", "o", "n">>}

PriceSampleRows == 10

MinPriceHits == 3

FallbackWidth == 25

\* float(str(cell_value).replace("$", "").replace(",", "").replace("OPT", "").strip())
SampleFloat(text) ==
    ParseFloat(Strip(Replace(Replace(Replace(text, <<"$">>, <<>>), <<",">>, <<>>),
                             <<"O", "P", "T">>, <<>>)))

\* a sampled cell counts as a price for _find_price_columns_advanced
IsPriceSampleAdvanced(cell) ==
    /\ cell.kind # "empty"
    /\ LET val == IF cell.kind = "number" THEN <<cell.value>> ELSE SampleFloat(cell.text)
       IN  val # <<>> /\ InRange(val[1], 10, 1000000)

\* the header reads as a material name
IsMaterialName(header) ==
    LET header_str == Strip(header)
    IN  /\ Len(header_str) >= 3
        /\ header_str[1] \in UpperLetters
        /\ \E k \in 1..Len(header_str) : header_str[k] \notin Digits
        /\ ~ContainsAny(Lower(header_str), DimensionKeywords)

\* strategies 1 to 3 of _find_price_columns_advanced for column i
SelectedAdvanced(columns, i, sku_col_idx) ==
    LET header_lower == Lower(Strip(columns[i + 1].header))
    IN  /\ i # sku_col_idx
        /\ ~ContainsAny(header_lower, MetadataKeywords)
        /\ \/ ContainsAny(header_lower, GradePatterns)
           \/ /\ IsMaterialName(columns[i + 1].header)
              /\ CountOf(Sample(columns[i + 1], PriceSampleRows), IsPriceSampleAdvanced)
                    >= MinPriceHits

\* strategy 4: the columns after the AW column, or after the identifier column
PositionFallbackAdvanced(columns, sku_col_idx) ==
    LET n      == Len(columns)
        HasCF(i) == Contains(Upper(columns[i + 1].header), <<"C", "F">>)
        HasAW(i) == Contains(Upper(columns[i + 1].header), <<"A", "W">>)
        aw     == {i \in 0..(n - 1) :
                      HasAW(i) /\ (~HasCF(i) \/ \E j \in 0..(i - 1) : HasCF(j))}
    IN  IF aw # {}
        THEN LET start_idx == (CHOOSE i \in aw : \A j \in aw : i <= j) + 1
             IN  SelectSeq(Range(start_idx, Min(start_idx + FallbackWidth, n)),
                           LAMBDA i : i # sku_col_idx)
        ELSE Range(sku_col_idx + 1, Min(sku_col_idx + FallbackWidth, n))

\* AdvancedDocumentProcessor._find_price_columns_advanced
FindPriceColumnsAdvanced(columns, sku_col_idx) ==
    LET price_cols == SelectSeq(Indices(Len(columns)),
                                LAMBDA i : SelectedAdvanced(columns, i, sku_col_idx))
    IN  IF price_cols # <<>> THEN price_cols
        ELSE PositionFallbackAdvanced(columns, sku_col_idx)


Grade1951 ==
    {<<"e", "l", "i", "t", "e", " ", "c", "h", "e", "r", "r", "y">>, <<"e", "l", "i", "t", "e", " ", "d", "u", "r", "a", "f", "o", "r", "m">>, <<"e", "l", "i", "t", "e", " ", "m", "a", "p", "l", "e">>, <<"e", "l", "i", "t", "e", " ", "p", "a", "i", "n", "t", "e", "d">>,
     <<"p", "r", "e", "m", "i", "u", "m", " ", "c", "h", "e", "r", "r", "y">>, <<"p", "r", "e", "m", "i", "u", "m", " ", "d", "u", "r", "a", "f", "o", "r", "m">>, <<"p", "r", "e", "m", "i", "u", "m", " ", "m", "a", "p", "l", "e">>, <<"p", "r", "e", "m", "i", "u", "m", " ", "p", "a", "i", "n", "t", "e", "d">>,
     <<"p", "r", "i", "m", "e", " ", "c", "h", "e", "r", "r", "y">>, <<"p", "r", "i", "m", "e", " ", "m", "a", "p", "l", "e">>, <<"p", "r", "i", "m", "e", " ", "p", "a", "i", "n", "t", "e", "d">>, <<"p", "r", "i", "m", "e", " ", "d", "u", "r", "a", "f", "o", "r", "m">>,
     <<"c", "h", "o", "i", "c", "e", " ", "d", "u", "r", "a", "f", "o", "r", "m">>, <<"c", "h", "o", "i", "c", "e", " ", "m", "a", "p", "l", "e">>, <<"c", "h", "o", "i", "c", "e", " ", "p", "a", "i", "n", "t", "e", "d">>}

WellbornNumeric == {<<"1">>, <<"2">>, <<"3">>, <<"4">>, <<"5">>, <<"6">>, <<"7">>, <<"8">>, <<"9">>, <<"a", "p", "c">>}

WellbornNamed == {<<"r", "u", "s", "h">>, <<"c", "f">>, <<"a", "w">>}

GenericPrice == {<<"p", "r", "i", "c", "e">>, <<"c", "o", "s", "t">>, <<"l", "i", "s", "t">>, <<"r", "e", "t", "a", "i", "l">>, <<"m", "s", "r", "p">>}

RagFallbackStart == 6

RagFallbackEnd == 50

RagLastResortEnd == 31

\* a sampled cell counts as a price for _find_price_columns of the RAG
\* processor: float(cell_value) is tried first, the stripped text only if
\* that fails
IsPriceSampleRag(cell) ==
    /\ cell.kind # "empty"
    /\ LET direct == IF cell.kind = "number" THEN <<cell.value>> ELSE ParseFloat(cell.text)
           val    == IF direct # <<>> THEN direct ELSE SampleFloat(cell.text)
       IN  val # <<>> /\ InRange(val[1], 10, 1000000)

\* the loop of _find_price_columns for column i
SelectedRag(columns, i) ==
    LET col       == columns[i + 1].header
        col_lower == Lower(Strip(col))
        col_str   == Strip(col)
    IN  /\ col_lower \notin {<<>>, <<"n", "a", "n">>, <<"n", "o", "n", "e">>}
        /\ \/ ContainsAny(col_lower, Grade1951)
           \/ /\ ~ContainsAny(col_lower, WellbornNamed)
              /\ \/ col_lower \in WellbornNumeric
                 \/ ContainsAny(col_lower, {<<"g", "r", "a", "d", "e", " ">> \o num : num \in WellbornNumeric})
                 \/ ContainsAny(col_lower, GenericPrice)
                 \/ /\ Len(col_str) >= 3
                    /\ col_str[1] \in UpperLetters
                    /\ \E k \in 1..Len(col_lower) : col_lower[k] \notin Digits
                    /\ ~ContainsAny(col_lower, MetadataKeywords \cup DimensionKeywords)
                    /\ \E k \in 1..Len(Sample(columns[i + 1], PriceSampleRows)) :
                          IsPriceSampleRag(columns[i + 1].cells[k])

\* the fallback of _find_price_columns: the columns from index 6 on whose
\* header is not a metadata or dimension header
FallbackRag(columns) ==
    LET n        == Len(columns)
        detected == SelectSeq(Range(RagFallbackStart, Min(RagFallbackEnd, n)),
                       LAMBDA i :
                           LET header_str == Upper(Strip(columns[i + 1].header))
                           IN  /\ header_str \notin {<<>>, <<"N", "A", "N">>, <<"N", "O", "N", "E">>}
                               /\ ~ContainsAny(header_str,
                                      {Upper(k) : k \in MetadataKeywords \cup DimensionKeywords}))
    IN  IF detected # <<>> THEN detected
        ELSE Range(RagFallbackStart, Min(RagLastResortEnd, n))

\* RAGDocumentProcessor._find_price_columns
FindPriceColumnsRag(columns) ==
    LET price_cols == SelectSeq(Indices(Len(columns)), LAMBDA i : SelectedRag(columns, i))
    IN  IF price_cols # <<>> THEN price_cols ELSE FallbackRag(columns)


(***************************************************************************)
(* Inferring the columns of a sheet                                        *)
(***************************************************************************)
MaxColumns == 3

Prices5 == [k \in 1..NumDataRows |-> NumberCell(Num(FALSE, <<"7", "5", "3">>, <<>>))]

Prices2 == [k \in 1..NumDataRows |->
               IF k <= 2 THEN TextCell(<<"4", "7", "9", ".", "8", "8">>) ELSE EmptyCell]

Blank5 == [k \in 1..NumDataRows |-> EmptyCell]

Codes5 == [k \in 1..NumDataRows |-> TextCell(<<"B", "2", "4">>)]

Codes3 == [k \in 1..NumDataRows |-> IF k <= 3 THEN TextCell(<<"W", "3", "0", "3", "0">>) ELSE EmptyCell]

ColumnPool ==
    { Column(<<"C", "o", "d", "e">>, Codes5), Column(<<"U", "n", "n", "a", "m", "e", "d">>, Codes5), Column(<<"U", "n", "n", "a", "m", "e", "d">>, Codes3),
      Column(<<"E", "l", "i", "t", "e", " ", "C", "h", "e", "r", "r", "y">>, Prices5), Column(<<"C", "h", "o", "i", "c", "e", " ", "P", "a", "i", "n", "t", "e", "d">>, Prices5),
      Column(<<"O", "a", "k">>, Prices5), Column(<<"P", "r", "i", "c", "e">>, Prices5),
      Column(<<"A", "r", "c", "a", "d", "i", "a">>, Prices5), Column(<<"A", "r", "c", "a", "d", "i", "a">>, Prices2),
      Column(<<"R", "U", "S", "H">>, Blank5), Column(<<"A", "W">>, Prices5), Column(<<"R", "e", "c", "e", "i", "v", "e", "s", " ", "S", "p", "e", "c", "i", "e", "s">>, Blank5) }

InitColumns ==
    /\ call = "none"
    /\ arg = <<>>
    /\ ret = <<>>
    /\ grid = <<>>
    /\ CacheIdle

\* one more column in the sheet
AddColumn ==
    /\ call = "none"
    /\ Len(grid) < MaxColumns
    /\ \E column \in ColumnPool : grid' = Append(grid, column)
    /\ UNCHANGED <<call, arg, ret>>
    /\ UNCHANGED cacheVars

\* _process_excel_advanced finds the identifier column and then the value
\* columns
FindColumnsAdvanced ==
    /\ call = "none"
    /\ grid # <<>>
    /\ LET sku_col_idx == FindSkuColumnAdvanced(grid)
       IN  ret' = [sku_col |-> sku_col_idx,
                   price_cols |-> FindPriceColumnsAdvanced(grid, sku_col_idx)]
    /\ call' = "AdvancedDocumentProcessor._find_price_columns_advanced"
    /\ UNCHANGED <<arg, grid>>
    /\ UNCHANGED cacheVars

\* RAGDocumentProcessor._find_price_columns
FindColumnsRag ==
    /\ call = "none"
    /\ grid # <<>>
    /\ ret' = [price_cols |-> FindPriceColumnsRag(grid)]
    /\ call' = "RAGDocumentProcessor._find_price_columns"
    /\ UNCHANGED <<arg, grid>>
    /\ UNCHANGED cacheVars

\* the header names a price or a grade, by the keyword list of the processor
\* that was called
MatchesPriceKeyword(header) ==
    LET header_lower == Lower(Strip(header))
    IN  IF call = "RAGDocumentProcessor._find_price_columns"
        THEN \/ ContainsAny(header_lower, Grade1951 \cup GenericPrice)
             \/ header_lower \in WellbornNumeric
             \/ ContainsAny(header_lower, {<<"g", "r", "a", "d", "e", " ">> \o num : num \in WellbornNumeric})
        ELSE ContainsAny(header_lower, GradePatterns)

\* the header of a metadata column: a quantity flag, a species or receiving
\* note, a yes/no flag
IsMetadataHeader(header) ==
    LET header_lower == Lower(Strip(header))
    IN  \/ ContainsAny(header_lower, {<<"r", "u", "s", "h">>, <<"c", "f">>, <<"a", "w">>, <<"r", "e", "c", "e", "i", "v", "e", "s">>, <<"s", "p", "e", "c", "i", "e", "s">>})
        \/ header_lower \in {<<"y">>, <<"n">>, <<"y", "e", "s">>, <<"n", "o">>, <<"y", "/", "n">>}

\* C13: every column whose header matches the price/grade keyword list and is
\* not a metadata column is among the value columns (the identifier column
\* aside)
C13_KeywordColumnsSelected ==
    call \in {"AdvancedDocumentProcessor._find_price_columns_advanced",
              "RAGDocumentProcessor._find_price_columns"} =>
        \A i \in 0..(Len(grid) - 1) :
            (/\ MatchesPriceKeyword(grid[i + 1].header)
             /\ ~IsMetadataHeader(grid[i + 1].header)
             /\ call = "AdvancedDocumentProcessor._find_price_columns_advanced"
                   => i # ret.sku_col)
            => i \in Elements(ret.price_cols)


SkuKeywordsMultimodal == {<<"S", "K", "U">>, <<"C", "O", "D", "E">>, <<"I", "T", "E", "M">>, <<"M", "O", "D", "E", "L">>, <<"P", "A", "R", "T">>}

MinCabinetCount == 3

\* float(str(cell_value).replace("$", "").replace(",", "").strip()) lies in
\* the price range
IsPriceSampleMultimodal(cell) ==
    /\ cell.kind # "empty"
    /\ LET val == ParseFloat(Strip(Replace(Replace(CellStr(cell), <<"$">>, <<>>),
                                           <<",">>, <<>>)))
       IN  val # <<>> /\ InRange(val[1], 10, 1000000)

\* the cell reads as a cabinet code: re.match("^[A-Z]{1,3}\d{2,}", ...)
IsCabinetCode(cell) == HasBaseCode(Upper(Strip(CellStr(cell))))

\* the identifier column of MultiModalDocumentProcessor._detect_columns
DetectSkuColumn(columns) ==
    LET n       == Len(columns)
        HeaderUpper(i) == Strip(Upper(columns[i + 1].header))
        named   == {i \in 0..(n - 1) : ContainsAny(HeaderUpper(i), SkuKeywordsMultimodal)}
        rush    == {i \in 0..(n - 1) : Contains(HeaderUpper(i), <<"R", "U", "S", "H">>)}
        coded   == {i \in 0..(Min(SkuSampleColumns, n) - 1) :
                       CountOf(Sample(columns[i + 1], SkuSampleRows), IsCabinetCode)
                           >= MinCabinetCount}
        First(S) == CHOOSE i \in S : \A j \in S : i <= j
    IN  IF named # {} THEN First(named)
        ELSE IF rush # {} THEN (IF First(rush) >= 1 THEN First(rush) - 1 ELSE 0)
        ELSE IF coded # {} THEN First(coded)
        ELSE IF n > 2 /\ columns[3].cells # <<>> /\ IsCabinetCode(columns[3].cells[1])
        THEN 2
        ELSE 0

PriceKeywordsMultimodal == {<<"P", "R", "I", "C", "E">>, <<"C", "O", "S", "T">>, <<"$">>, <<"C", "F">>, <<"A", "W">>, <<"G", "R", "A", "D", "E">>, <<"A", "P", "C">>}

NotMaterialKeywords ==
    {<<"R", "U", "S", "H">>, <<"S", "P", "E", "C", "I", "E", "S">>, <<"C", "H", "A", "R", "G", "E", "S">>, <<"R", "E", "C", "E", "I", "V", "E", "S">>, <<"Y">>, <<"N">>, <<"Y", "E", "S">>, <<"N", "O">>,
     <<"S", "K", "U">>, <<"C", "O", "D", "E">>, <<"I", "T", "E", "M">>}

MaterialSampleRows == 9

NumericSampleRows == 19

NumericScanWidth == 20

MinNumericCount == 5

\* the value columns of _detect_columns
DetectPriceColumns(columns, sku_col) ==
    LET n == Len(columns)
        Selected(i) ==
            LET header_upper == Strip(Upper(columns[i + 1].header))
                header_str   == Strip(columns[i + 1].header)
            IN  \/ ContainsAny(header_upper, PriceKeywordsMultimodal)
                \/ /\ i > sku_col
                   /\ Len(header_str) >= 3
                   /\ header_str[1] \in UpperLetters
                   /\ ~ContainsAny(header_upper, NotMaterialKeywords)
                   /\ \E k \in 1..Len(header_upper) : header_upper[k] \notin Digits
                   /\ CountOf(Sample(columns[i + 1], MaterialSampleRows),
                              IsPriceSampleMultimodal) >= 1
        price_cols == SelectSeq(Indices(n), Selected)
    IN  IF price_cols # <<>> THEN price_cols
        ELSE SelectSeq(Range(sku_col + 1, Min(n, sku_col + NumericScanWidth)),
                 LAMBDA i : CountOf(Sample(columns[i + 1], NumericSampleRows),
                                    IsPriceSampleMultimodal) >= MinNumericCount)

\* MultiModalDocumentProcessor._detect_columns
DetectColumns ==
    /\ call = "none"
    /\ grid # <<>>
    /\ LET sku_col == DetectSkuColumn(grid)
       IN  ret' = [sku_col |-> sku_col, price_cols |-> DetectPriceColumns(grid, sku_col)]
    /\ call' = "MultiModalDocumentProcessor._detect_columns"
    /\ UNCHANGED <<arg, grid>>
    /\ UNCHANGED cacheVars

NextColumns == AddColumn \/ FindColumnsAdvanced \/ FindColumnsRag \/ DetectColumns

SpecColumns == InitColumns /\ [][NextColumns]_vars


(***************************************************************************)
(* The relations between two codes that the matchers compute: exact match, *)
(* base code and base match                                                *)
(***************************************************************************)
CodePool ==
    {<<"B", "2", "4">>, <<"b", "2", "4">>, <<"b", "-", "2", "4">>, <<"B", " ", "2", "4">>, <<"B", " ", " ", "2", "4">>, <<"B", "2", "4", " ", "L">>, <<"B", "2", "4", "L">>,
     <<"B", "2", "4", " ", "L", "/", "R">>, <<"B", "2", "4", " ", "L", "E", "F", "T">>, <<"B", "2", "4", " ", "B", "U", "T", "T">>, <<"D", "B", "2", "4">>, <<"W", "3", "0", "3", "0", " ", "S", "D">>}

\* rules 1 and 3 of find_matching_skus: the normalized forms are equal or the
\* canonical keys are
ServerExact(s1, s2) ==
    LET e1 == CatalogEntry(s1)
        e2 == CatalogEntry(s2)
    IN  \/ e1.normalized = e2.normalized
        \/ e1.canonical # <<>> /\ e1.canonical = e2.canonical

\* rules 2 and 4 of find_matching_skus: the bases are equal or the canonical
\* keys of the bases are
ServerBaseMatch(s1, s2) ==
    LET e1 == CatalogEntry(s1)
        e2 == CatalogEntry(s2)
    IN  \/ e1.base # <<>> /\ e1.base = e2.base
        \/ e1.canonical_base # <<>> /\ e1.canonical_base = e2.canonical_base

\* the exact test of create_advanced_context for a question code and a
\* catalog code
AdvancedExact(q, catalog_sku) ==
    LET query_sku == Upper(Strip(q))
    IN  \/ SkuValidatorNormalize(query_sku) = SkuValidatorNormalize(catalog_sku)
        \/ Upper(catalog_sku) = query_sku

\* base_code of create_advanced_context, taken from the normalized question
\* code
AdvancedBaseCode(q) == BaseCodeOf(SkuValidatorNormalize(Upper(Strip(q))))

\* catalog_base of create_advanced_context, taken from the catalog code in
\* upper case
CatalogBase(catalog_sku) == BaseCodeOf(Upper(Strip(catalog_sku)))

\* the base test of create_advanced_context
AdvancedBaseMatch(q, catalog_sku) ==
    Upper(AdvancedBaseCode(q)) = Upper(CatalogBase(catalog_sku))

\* q_base of _score_chunk: the match of the base pattern, if any
ScoreBase(s) == IF HasBaseCode(s) THEN <<BaseGroup(s)>> ELSE <<>>

InitCodes ==
    /\ call = "none"
    /\ arg \in CodePool \X CodePool
    /\ ret = <<>>
    /\ grid = <<>>
    /\ CacheIdle

\* the exact rules of find_matching_skus on the two codes and its base rules
\* on their bases
CompareServer ==
    /\ call = "none"
    /\ ret' = [exact |-> ServerExact(arg[1], arg[2]),
               base  |-> ServerBaseMatch(CatalogEntry(arg[1]).base, CatalogEntry(arg[2]).base)]
    /\ call' = "find_matching_skus: exact, base"
    /\ UNCHANGED <<arg, grid>>
    /\ UNCHANGED cacheVars

\* the exact test of create_advanced_context on the two codes and its base
\* test on their base codes
CompareAdvanced ==
    /\ call = "none"
    /\ ret' = [exact |-> AdvancedExact(arg[1], arg[2]),
               base  |-> AdvancedBaseMatch(AdvancedBaseCode(arg[1]), CatalogBase(arg[2]))]
    /\ call' = "create_advanced_context: exact, base"
    /\ UNCHANGED <<arg, grid>>
    /\ UNCHANGED cacheVars

\* the base code of create_advanced_context, of the code and of its
\* normalized form
BaseCodeAdvanced ==
    /\ call = "none"
    /\ ret' = [of_code       |-> <<CatalogBase(arg[1])>>,
               of_normalized |-> <<BaseCodeOf(SkuValidatorNormalize(arg[1]))>>]
    /\ call' = "create_advanced_context: base_code"
    /\ UNCHANGED <<arg, grid>>
    /\ UNCHANGED cacheVars

\* the base code of _score_chunk, of the code and of its normalized form
BaseCodeScore ==
    /\ call = "none"
    /\ ret' = [of_code       |-> ScoreBase(Upper(Strip(arg[1]))),
               of_normalized |-> ScoreBase(ScoreNormalize(Upper(Strip(arg[1]))))]
    /\ call' = "_score_chunk: base_code"
    /\ UNCHANGED <<arg, grid>>
    /\ UNCHANGED cacheVars

NextCodes == CompareServer \/ CompareAdvanced \/ BaseCodeAdvanced \/ BaseCodeScore

SpecCodes == InitCodes /\ [][NextCodes]_vars

\* C14: when two codes match exactly, their base codes match by the base
\* rule
C14_MatchingMonotone ==
    call \in {"find_matching_skus: exact, base", "create_advanced_context: exact, base"}
    => (ret.exact => ret.base)

MatchRule(matcher, q, catalog_sku) ==
    IF matcher = "find_matching_skus"
    THEN IF ServerExact(q, catalog_sku) THEN "exact"
         ELSE IF ServerBaseMatch(q, catalog_sku) THEN "base"
         ELSE "substring"
    ELSE IF AdvancedExact(q, catalog_sku) THEN "exact"
         ELSE IF AdvancedBaseMatch(q, catalog_sku) THEN "base"
         ELSE "none"

\* C18: of two records returned for the one code of a question by the same
\* rule, the one with the longer normalized code is not the earlier one
C18_ShorterCodeFirst ==
    (/\ call \in {"create_advanced_context", "find_matching_skus"}
     /\ Len(ret.potential_skus) = 1)
    => \A i, j \in 1..Len(ret.matched) :
          (/\ i < j
           /\ MatchRule(call, ret.potential_skus[1], ret.matched[i])
                 = MatchRule(call, ret.potential_skus[1], ret.matched[j]))
          => Len(NormalizedBy(call, ret.matched[i]))
                 <= Len(NormalizedBy(call, ret.matched[j]))


(***************************************************************************)
(* Failures while ingesting a workbook.  A cell that holds a Python int is  *)
(* its decimal digits; float() of an int above the largest float raises     *)
(* OverflowError, which the handlers around the conversion, written for     *)
(* ValueError and TypeError, let through.  The headers of the price columns *)
(* are grade names, which the column finders select by name without         *)
(* converting a cell.                                                       *)
(***************************************************************************)
FloatMaxDigits == 309

MaxWorkbookRows == 3

IntCell(digits) == [kind |-> "int", text |-> digits]

HugeInt == [i \in 1..(FloatMaxDigits + 1) |-> IF i = 1 THEN "1" ELSE "0"]

\* float(value) raises for the cell
CellRaises(cell) == cell.kind = "int" /\ Len(cell.text) > FloatMaxDigits

\* the cell after float(value), for an int that converts
AsFloatCell(cell) ==
    IF cell.kind = "int" /\ ~CellRaises(cell)
    THEN NumberCell(Num(FALSE, cell.text, <<>>))
    ELSE cell

\* the extraction of the prices of the row raises
RowRaises(r) == \E c \in 1..Len(r.cells) : CellRaises(r.cells[c])

\* the row with its ints converted
Converted(r) == Row(r.code, [c \in 1..Len(r.cells) |-> AsFloatCell(r.cells[c])])

\* the row reaches the extraction of its prices
CodeAccepted(r) ==
    /\ Upper(Strip(r.code)) \notin SkippedCodes
    /\ IsValidSku(Strip(r.code))

\* the row loop of _process_excel_advanced with its handler: a row whose
\* extraction raises is left out and the loop goes on
RECURSIVE AdvancedRowsTry(_, _, _, _)
AdvancedRowsTry(rows, sheet, idx, skus) ==
    IF idx > Len(rows) THEN skus
    ELSE LET sku_raw == Strip(rows[idx].code)
         IN  AdvancedRowsTry(rows, sheet, idx + 1,
                 IF ~CodeAccepted(rows[idx]) \/ RowRaises(rows[idx]) THEN skus
                 ELSE DictPut(skus, [sku |-> SkuValidatorNormalize(sku_raw),
                                     sheet |-> sheet,
                                     prices |-> AdvancedPrices(Converted(rows[idx]).cells),
                                     row_index |-> idx,
                                     raw_sku |-> sku_raw]))

RECURSIVE AdvancedSheetsTry(_, _, _)
AdvancedSheetsTry(excel_data, sheet, skus) ==
    IF sheet > Len(excel_data) THEN skus
    ELSE AdvancedSheetsTry(excel_data, sheet + 1,
                           AdvancedRowsTry(excel_data[sheet], sheet, 1, skus))

\* _process_excel_advanced: the error result when no code was extracted
ProcessExcelAdvancedTry(excel_data) ==
    LET skus == AdvancedSheetsTry(excel_data, 1, <<>>)
    IN  [error |-> skus = <<>>, skus |-> skus]

\* some row of the workbook raises in RAGDocumentProcessor._process_excel,
\* whose loops have no handler
RagRaises(excel_data) ==
    \E s \in 1..Len(excel_data) : \E i \in 1..Len(excel_data[s]) :
        CodeAccepted(excel_data[s][i]) /\ RowRaises(excel_data[s][i])

\* RAGDocumentProcessor._process_excel: the handler of the whole function
\* returns the error text; so does an empty index
ProcessExcelRagTry(excel_data) ==
    IF RagRaises(excel_data) THEN [error |-> TRUE, skus |-> <<>>]
    ELSE LET skus == ProcessExcelRag([s \in 1..Len(excel_data) |->
                         [i \in 1..Len(excel_data[s]) |-> Converted(excel_data[s][i])]])
         IN  [error |-> skus = <<>>, skus |-> skus]

\* rows of a workbook: two priced codes, a code whose price is an int above
\* the largest float, a note
WorkbookRows ==
    { Row(<<"B", "2", "4">>, <<TextCell(<<"7", "5", "3", ".", "0", "0">>), IntCell(<<"4", "8", "0">>)>>),
      Row(<<"W", "3", "0", "3", "0">>, <<IntCell(<<"4", "1", "2">>), EmptyCell>>),
      Row(<<"D", "B", "2", "4">>, <<IntCell(HugeInt), TextCell(<<"1", "2", "0", ".", "0", "0">>)>>),
      Row(<<"N", "O", "T", "E">>, <<EmptyCell, IntCell(HugeInt)>>) }

InitRecover ==
    /\ call = "none"
    /\ arg = <<>>
    /\ ret = <<>>
    /\ grid = << <<>> >>
    /\ CacheIdle

\* one more row at the end of the last sheet of the workbook
AddWorkbookRow ==
    /\ call = "none"
    /\ RowCount(grid) < MaxWorkbookRows
    /\ \E r \in WorkbookRows :
          grid' = [grid EXCEPT ![Len(grid)] = Append(@, r)]
    /\ UNCHANGED <<call, arg, ret>>
    /\ UNCHANGED cacheVars

\* one more sheet, after a sheet that has rows
AddWorkbookSheet ==
    /\ call = "none"
    /\ Len(grid) < MaxSheets
    /\ grid[Len(grid)] # <<>>
    /\ grid' = Append(grid, <<>>)
    /\ UNCHANGED <<call, arg, ret>>
    /\ UNCHANGED cacheVars

RecoverAdvanced ==
    /\ call = "none"
    /\ call' = "AdvancedDocumentProcessor._process_excel_advanced"
    /\ ret' = ProcessExcelAdvancedTry(grid)
    /\ UNCHANGED <<arg, grid>>
    /\ UNCHANGED cacheVars

RecoverRag ==
    /\ call = "none"
    /\ call' = "RAGDocumentProcessor._process_excel"
    /\ ret' = ProcessExcelRagTry(grid)
    /\ UNCHANGED <<arg, grid>>
    /\ UNCHANGED cacheVars

NextRecover == AddWorkbookRow \/ AddWorkbookSheet \/ RecoverAdvanced \/ RecoverRag

SpecRecover == InitRecover /\ [][NextRecover]_vars

\* the row yields a record: its code is accepted and its extraction does not
\* raise
YieldsRecord(r) == CodeAccepted(r) /\ ~RowRaises(r)

\* C19: when a row of the workbook fails, the codes of the rows that yield a
\* record are in the index, and the result is an error only when no row of
\* the workbook yields a record
C19_FailureRecoveredLocally ==
    call \in {"AdvancedDocumentProcessor._process_excel_advanced",
              "RAGDocumentProcessor._process_excel"}
    => /\ \A s \in 1..Len(grid) : \A i \in 1..Len(grid[s]) :
             YieldsRecord(grid[s][i])
             => \E j \in 1..Len(ret.skus) :
                   ret.skus[j].sku = SkuValidatorNormalize(Strip(grid[s][i].code))
       /\ ret.error
             => \A s \in 1..Len(grid) : \A i \in 1..Len(grid[s]) :
                   ~YieldsRecord(grid[s][i])


(***************************************************************************)
(* The order of the strategies that find the identifier column             *)
(***************************************************************************)

\* the least element of a set of column indices
FirstOf(S) == CHOOSE i \in S : \A j \in S : i <= j

\* the identifier column found by the strategies in the order: a header among
\* named; the column before the first header with the gate keyword RUSH; the
\* first of the scanned columns with the highest count of code cells, when
\* that count reaches the minimum; column 2 when its first cell is a code;
\* column 0
ColumnInOrder(columns, named, IsCode(_), minimum) ==
    LET n        == Len(columns)
        gate     == {i \in 0..(n - 1) :
                        Contains(Upper(Strip(columns[i + 1].header)), <<"R", "U", "S", "H">>)}
        scanned  == 0..(Min(SkuSampleColumns, n) - 1)
        Count(i) == CountOf(Sample(columns[i + 1], SkuSampleRows), IsCode)
        highest  == {i \in scanned : \A j \in scanned : Count(j) <= Count(i)}
    IN  IF named # {} THEN FirstOf(named)
        ELSE IF gate # {} THEN (IF FirstOf(gate) >= 1 THEN FirstOf(gate) - 1 ELSE 0)
        ELSE IF highest # {} /\ Count(FirstOf(highest)) >= minimum THEN FirstOf(highest)
        ELSE IF n > 2 /\ columns[3].cells # <<>> /\ IsCode(columns[3].cells[1]) THEN 2
        ELSE 0

\* the columns whose header holds an identifier keyword of the processor
NamedAdvanced(columns) ==
    {i \in 0..(Len(columns) - 1) :
        ContainsAny(Lower(Strip(columns[i + 1].header)), SkuKeywordsAdvanced)}

NamedMultimodal(columns) ==
    {i \in 0..(Len(columns) - 1) :
        ContainsAny(Strip(Upper(columns[i + 1].header)), SkuKeywordsMultimodal)}

\* C20: the identifier column each processor finds is the one the strategies
\* give in the order name, gate adjacency, statistical scan, default column,
\* column 0, with the processor's own keywords, code test and minimum.
\* Stated for the sheets whose first header is not the gate keyword, which
\* has no column before it.
C20_StrategyOrder ==
    /\ (call = "AdvancedDocumentProcessor._find_price_columns_advanced" /\ ~Contains(Upper(Strip(grid[1].header)), <<"R", "U", "S", "H">>))
          => ret.sku_col = ColumnInOrder(grid, NamedAdvanced(grid),
                                         LAMBDA cell : IsValidSku(Strip(CellStr(cell))),
                                         MinSkuCount)
    /\ (call = "MultiModalDocumentProcessor._detect_columns" /\ ~Contains(Upper(Strip(grid[1].header)), <<"R", "U", "S", "H">>))
          => ret.sku_col = ColumnInOrder(grid, NamedMultimodal(grid), IsCabinetCode,
                                         MinCabinetCount)


(***************************************************************************)
(* Finding the header row of a sheet.  A sheet is the sequence of its rows, *)
(* a row the sequence of its cells, all rows of one width.  A score is a    *)
(* binary64 sum of the weights 0.3, 0.4, 0.5 and 0.2: it is held as its     *)
(* value in tenths and, where the sum is not the float nearest to that      *)
(* value, the side on which it lies, so that two scores are equal exactly   *)
(* when the floats are.  The rows of the model hold at most MaxKeywordHits  *)
(* keywords.                                                                *)
(***************************************************************************)
MaxKeywordHits == 4

MaxHeaderRows == 3

Flag(b) == IF b THEN 1 ELSE 0

\* the sums of _detect_header_advanced, (keywords * 0.3 + 0.4 + 0.5 + 0.3 with
\* the terms that apply), that binary64 rounds below and above the nearest
\* float of the decimal value
AdvancedRoundedDown == {<<2, 0, 0, 1>>, <<3, 0, 0, 0>>, <<3, 1, 0, 0>>, <<3, 1, 0, 1>>, <<3, 1, 1, 0>>, <<3, 1, 1, 1>>}

AdvancedRoundedUp == {<<2, 0, 1, 1>>, <<4, 1, 0, 1>>}

\* the sums of _detect_header_row, keywords * 0.3 + 0.5 + 0.4 + 0.2
MultimodalRoundedDown == {<<1, 0, 1, 1>>, <<3, 0, 0, 0>>, <<3, 0, 0, 1>>, <<3, 0, 1, 0>>, <<3, 0, 1, 1>>, <<3, 1, 0, 1>>, <<3, 1, 1, 0>>, <<3, 1, 1, 1>>}

MultimodalRoundedUp == {<<0, 0, 1, 1>>, <<1, 1, 1, 0>>, <<1, 1, 1, 1>>, <<4, 1, 1, 1>>}

Ulp(terms, down, up) == IF terms \in down THEN -1 ELSE IF terms \in up THEN 1 ELSE 0

\* a > b on two scores
ScoreGreater(a, b) == a.tenths > b.tenths \/ (a.tenths = b.tenths /\ a.ulp > b.ulp)

\* float(text) succeeds
IsFloatText(text) == ParseFloat(text) # <<>>

\* str.isdigit()
IsDigitText(text) == text # <<>> /\ \A k \in 1..Len(text) : text[k] \in Digits

\* the number of the keywords that occur in the text
KeywordHits(text, keywords) == Cardinality({keyword \in keywords : Contains(text, keyword)})

HeaderKeywordsAdvanced == {<<"s", "k", "u">>, <<"c", "o", "d", "e">>, <<"i", "t", "e", "m">>, <<"p", "a", "r", "t">>, <<"c", "a", "t", "a", "l", "o", "g">>, <<"p", "r", "o", "d", "u", "c", "t">>, <<"e", "l", "i", "t", "e">>, <<"p", "r", "e", "m", "i", "u", "m">>, <<"p", "r", "i", "m", "e">>, <<"c", "h", "o", "i", "c", "e">>, <<"r", "u", "s", "h">>, <<"c", "f">>, <<"a", "w">>, <<"g", "r", "a", "d", "e">>, <<"a", "r", "c", "d", "i", "a">>, <<"b", "e", "l", "-", "a", "i", "r">>, <<"a", "l", "t", "o">>, <<"p", "r", "e", "s", "t", "o", "n">>, <<"r", "e", "c", "e", "i", "v", "e", "s">>, <<"s", "p", "e", "c", "i", "e", "s">>, <<"c", "h", "a", "r", "g", "e", "s">>}

FallbackKeywordsAdvanced == {<<"s", "k", "u">>, <<"c", "o", "d", "e">>, <<"r", "u", "s", "h">>, <<"c", "f">>, <<"a", "w">>, <<"g", "r", "a", "d", "e">>, <<"p", "r", "i", "c", "e">>}

\* row_values of _detect_header_advanced: the cells that are not NaN
RowValuesAdvanced(row) ==
    LET kept == SelectSeq(row, LAMBDA cell : cell.kind # "empty")
    IN  [k \in 1..Len(kept) |-> Strip(CellStr(kept[k]))]

\* the value counts as a material name
LooksLikeName(val) ==
    /\ Len(val) >= 3
    /\ val[1] \in UpperLetters
    /\ ~IsDigitText(Upper(val))

\* text_count > numeric_count, text_count being the filled cells that are not numeric
MoreTextThanNumbers(filled_count, numeric_count) == filled_count - numeric_count > numeric_count

\* score = 0.0 and the four "score +=" of _detect_header_advanced
SumAdvanced(terms) ==
    [tenths |-> 3 * terms[1] + 4 * terms[2] + 5 * terms[3] + 3 * terms[4],
     ulp    |-> Ulp(terms, AdvancedRoundedDown, AdvancedRoundedUp)]

\* the body of the loop of _detect_header_advanced, from row_values on
ScoreRowValuesAdvanced(row_values) ==
    LET row_str    == Lower(Join(<<" ">>, row_values))
        filled     == SelectSeq(row_values, LAMBDA val : val # <<>>)
        IsNumeric(val) == IsFloatText(Replace(Replace(val, <<",">>, <<>>), <<"$">>, <<>>))
        has_cabinet_codes ==
            \E k \in 1..Len(row_values) : AdvancedCodeEnd(Upper(row_values[k]), 1) # 0
    IN  SumAdvanced(<<KeywordHits(row_str, HeaderKeywordsAdvanced),
                      Flag(MoreTextThanNumbers(Len(filled), CountOf(filled, IsNumeric))),
                      Flag(CountOf(filled, LooksLikeName) >= 5),
                      Flag(~has_cabinet_codes)>>)

\* score of _detect_header_advanced for one row
HeaderScoreAdvanced(row) == ScoreRowValuesAdvanced(RowValuesAdvanced(row))

HeaderScanRowsAdvanced == 20

\* the loop with "score >= best_score" for "score > best_score"
RECURSIVE BestRowAdvancedLast(_, _, _)
BestRowAdvancedLast(df, idx, best) ==
    IF idx > Min(HeaderScanRowsAdvanced, Len(df)) THEN best
    ELSE LET score == HeaderScoreAdvanced(df[idx])
         IN  BestRowAdvancedLast(df, idx + 1,
                 IF ~ScoreGreater(best.score, score)
                 THEN [row |-> <<idx - 1>>, score |-> score]
                 ELSE best)

\* the loop of _detect_header_advanced over rows idx.. : best_row (<<>> for
\* None) and best_score
RECURSIVE BestRowAdvanced(_, _, _)
BestRowAdvanced(df, idx, best) ==
    IF idx > Min(HeaderScanRowsAdvanced, Len(df)) THEN best
    ELSE LET score == HeaderScoreAdvanced(df[idx])
         IN  BestRowAdvanced(df, idx + 1,
                 IF ScoreGreater(score, best.score)
                 THEN [row |-> <<idx - 1>>, score |-> score]
                 ELSE best)

\* the end of _detect_header_advanced: best_row, or the first of the rows
\* 0..2 with a keyword, or 0
HeaderOrFallbackAdvanced(df, best) ==
    LET tries == {t \in 0..2 :
                     /\ t < Len(df)
                     /\ ContainsAny(Lower(Join(<<" ">>, RowValuesAdvanced(df[t + 1]))),
                                    FallbackKeywordsAdvanced)}
    IN  IF best.score.tenths >= 3 \/ best.row # <<>>
        THEN (IF best.row # <<>> THEN best.row ELSE <<0>>)
        ELSE IF tries # {} THEN <<CHOOSE t \in tries : \A u \in tries : t <= u>>
        ELSE <<0>>

\* best_row = None and best_score = 0
NoBestRow == [row |-> <<>>, score |-> [tenths |-> 0, ulp |-> 0]]

\* AdvancedDocumentProcessor._detect_header_advanced: the index of the header
\* row, <<>> for None
DetectHeaderAdvanced(df) == HeaderOrFallbackAdvanced(df, BestRowAdvanced(df, 1, NoBestRow))

HeaderIndicators == {<<"S", "K", "U">>, <<"C", "O", "D", "E">>, <<"I", "T", "E", "M">>, <<"P", "R", "I", "C", "E">>, <<"C", "O", "S", "T">>, <<"R", "U", "S", "H">>, <<"C", "F">>, <<"A", "W">>, <<"R", "E", "C", "E", "I", "V", "E", "S">>, <<"S", "P", "E", "C", "I", "E", "S">>}

NotNameKeywords == {<<"R", "U", "S", "H">>, <<"Y">>, <<"N">>, <<"O", "P", "T">>, <<"N", "O", "T", "E">>, <<"R", "E", "C", "E", "I", "V", "E", "S">>, <<"S", "P", "E", "C", "I", "E", "S">>, <<"C", "H", "A", "R", "G", "E", "S">>}

HeaderWords == {<<"P", "R", "I", "C", "E">>, <<"C", "O", "S", "T">>, <<"S", "K", "U">>, <<"C", "O", "D", "E">>, <<"I", "T", "E", "M">>}

\* re.search(r'\b(PRICE|COST|SKU|CODE|ITEM)\b', text)
HasHeaderWord(text) ==
    \E word \in HeaderWords : \E i \in 1..Len(text) :
        MatchAt(text, word, i) /\ Boundary(text, i) /\ Boundary(text, i + Len(word))

\* re.search(r'^[A-Z\s]+$', text)
IsCapsAndSpaces(text) ==
    text # <<>> /\ \A k \in 1..Len(text) : text[k] \in UpperLetters \cup Whitespace

\* score = 0.0 and the four "score +=" of _detect_header_row
SumMultimodal(terms) ==
    [tenths |-> 3 * terms[1] + 5 * terms[2] + 4 * terms[3] + 2 * terms[4],
     ulp    |-> Ulp(terms, MultimodalRoundedDown, MultimodalRoundedUp)]

\* the body of the loop of _detect_header_row, from row_values on
ScoreRowValuesMultimodal(row_values, row_str) ==
    LET filled     == SelectSeq([k \in 1..Len(row_values) |-> Strip(row_values[k])],
                                LAMBDA val : val # <<>>)
        IsName(val) == LooksLikeName(val) /\ ~ContainsAny(Upper(val), NotNameKeywords)
        IsNumeric(val) ==
            IsFloatText(Replace(Replace(Replace(val, <<",">>, <<>>), <<"$">>, <<>>),
                                <<"O", "P", "T">>, <<>>))
    IN  SumMultimodal(<<KeywordHits(row_str, HeaderIndicators),
                        Flag(CountOf(filled, IsName) >= 5),
                        Flag(MoreTextThanNumbers(Len(filled), CountOf(filled, IsNumeric))),
                        Flag(IsCapsAndSpaces(row_str) \/ HasHeaderWord(row_str))>>)

\* row_values of _detect_header_row: "" for NaN
RowValuesMultimodal(row) ==
    [k \in 1..Len(row) |-> IF row[k].kind = "empty" THEN <<>> ELSE CellStr(row[k])]

\* score of _detect_header_row for one row
HeaderScoreMultimodal(row) ==
    ScoreRowValuesMultimodal(RowValuesMultimodal(row), Upper(Join(<<" ">>, RowValuesMultimodal(row))))

HeaderScanRowsMultimodal == 10

\* header_scores.sort(key=lambda x: x[0], reverse=True) and the test of the
\* first: the stable sort by descending score puts first the earliest of the
\* rows with the best score
BestOfScores(header_scores) ==
    LET scanned == DOMAIN header_scores
        best == CHOOSE i \in scanned :
                   \A j \in scanned :
                       /\ ~ScoreGreater(header_scores[j], header_scores[i])
                       /\ j < i => ScoreGreater(header_scores[i], header_scores[j])
    IN  IF header_scores[best].tenths >= 3 THEN <<best - 1>> ELSE <<0>>

\* MultiModalDocumentProcessor._detect_header_row
DetectHeaderRow(df) ==
    IF df = <<>> THEN <<>>
    ELSE BestOfScores([i \in 1..Min(HeaderScanRowsMultimodal, Len(df)) |->
                          HeaderScoreMultimodal(df[i])])

StructureScanRows == 50

\* re.match(r"^[A-Z]{1,5}\d{2,4}", text)
StartsLikeCode(text) ==
    Run(text, UpperLetters, 1) \in 1..5 /\ Run(text, Digits, Run(text, UpperLetters, 1) + 1) >= 2

\* header_row of UniversalDocumentProcessor._analyze_excel_structure: the
\* last row before the first row of data that holds three texts of more than
\* two characters
AnalyzeHeaderRow(df) ==
    LET header_candidates ==
            {i \in 1..Min(StructureScanRows, Len(df)) :
                CountOf(df[i], LAMBDA cell : cell.kind = "text" /\ Len(cell.text) > 2) >= 3}
        starts == {i \in 1..Len(df) : StartsLikeCode(Upper(Strip(CellStr(df[i][1]))))}
        data_start == IF starts = {} THEN <<>>
                      ELSE <<CHOOSE i \in starts : \A j \in starts : i <= j>>
        before == IF data_start = <<>> THEN {}
                  ELSE {i \in header_candidates : i < data_start[1]}
    IN  IF before = {} THEN <<>>
        ELSE <<(CHOOSE i \in before : \A j \in before : i >= j) - 1>>

\* rows of a sheet: two headers, a row of data, a row of data with the word
\* price, a blank row, a title
HeaderRowPool ==
    { <<TextCell(<<"C", "o", "d", "e">>), TextCell(<<"O", "a", "k">>), TextCell(<<"M", "a", "p", "l", "e">>), EmptyCell, EmptyCell>>,
      <<TextCell(<<"A", "r", "c", "a", "d", "i", "a">>), TextCell(<<"O", "a", "k">>), TextCell(<<"M", "a", "p", "l", "e">>), TextCell(<<"B", "i", "r", "c", "h">>), TextCell(<<"W", "a", "l", "n", "u", "t">>)>>,
      <<TextCell(<<"B", "2", "4">>), NumberCell(Num(FALSE, <<"7", "5", "3">>, <<>>)), NumberCell(Num(FALSE, <<"4", "8", "0">>, <<>>)), EmptyCell, EmptyCell>>,
      <<TextCell(<<"B", "2", "4">>), TextCell(<<"p", "r", "i", "c", "e">>), NumberCell(Num(FALSE, <<"1">>, <<>>)), NumberCell(Num(FALSE, <<"2">>, <<>>)), EmptyCell>>,
      <<EmptyCell, EmptyCell, EmptyCell, EmptyCell, EmptyCell>>,
      <<TextCell(<<"P", "R", "I", "C", "E", " ", "L", "I", "S", "T">>), EmptyCell, EmptyCell, EmptyCell, EmptyCell>> }

InitHeader ==
    /\ call = "none"
    /\ arg = <<>>
    /\ ret = <<>>
    /\ grid = <<>>
    /\ CacheIdle

\* one more row at the end of the sheet
AddSheetRow ==
    /\ call = "none"
    /\ Len(grid) < MaxHeaderRows
    /\ \E row \in HeaderRowPool : grid' = Append(grid, row)
    /\ UNCHANGED <<call, arg, ret>>
    /\ UNCHANGED cacheVars

\* _detect_header_advanced on the sheet; ret keeps the score of every row
HeaderAdvanced ==
    /\ call = "none"
    /\ grid # <<>>
    /\ ret' = [header_row |-> DetectHeaderAdvanced(grid),
               scores |-> [i \in 1..Len(grid) |-> HeaderScoreAdvanced(grid[i])]]
    /\ call' = "AdvancedDocumentProcessor._detect_header_advanced"
    /\ UNCHANGED <<arg, grid>>
    /\ UNCHANGED cacheVars

HeaderMultimodal ==
    /\ call = "none"
    /\ grid # <<>>
    /\ ret' = [header_row |-> DetectHeaderRow(grid),
               scores |-> [i \in 1..Len(grid) |-> HeaderScoreMultimodal(grid[i])]]
    /\ call' = "MultiModalDocumentProcessor._detect_header_row"
    /\ UNCHANGED <<arg, grid>>
    /\ UNCHANGED cacheVars

HeaderUniversal ==
    /\ call = "none"
    /\ grid # <<>>
    /\ ret' = [header_row |-> AnalyzeHeaderRow(grid)]
    /\ call' = "UniversalDocumentProcessor._analyze_excel_structure"
    /\ UNCHANGED <<arg, grid>>
    /\ UNCHANGED cacheVars

NextHeader == AddSheetRow \/ HeaderAdvanced \/ HeaderMultimodal \/ HeaderUniversal

SpecHeader == InitHeader /\ [][NextHeader]_vars

HeaderDetectors ==
    {"AdvancedDocumentProcessor._detect_header_advanced",
     "MultiModalDocumentProcessor._detect_header_row",
     "UniversalDocumentProcessor._analyze_excel_structure"}

\* C21: for a sheet that is not empty, header detection returns the index of
\* a row of the sheet, never None
C21_HeaderTotal ==
    call \in HeaderDetectors
    => /\ ret.header_row # <<>>
       /\ ret.header_row[1] \in 0..(Len(grid) - 1)


\* the rows of the sheet that the detector scored and that no row outscores
TopRows ==
    {i \in 1..Len(ret.scores) : \A j \in 1..Len(ret.scores) :
        ~ScoreGreater(ret.scores[j], ret.scores[i])}

\* C23: when several rows share the highest header score, the detector
\* returns the one of them with the lowest index
C23_TieLowestIndex ==
    (/\ call \in {"AdvancedDocumentProcessor._detect_header_advanced",
                  "MultiModalDocumentProcessor._detect_header_row"}
     /\ Cardinality(TopRows) >= 2)
    => ret.header_row = <<(CHOOSE i \in TopRows : \A j \in TopRows : i <= j) - 1>>

\* C23, for a score that reaches the threshold: when several rows share the
\* highest header score and that score is at least 0.3, the detector returns
\* the one of them with the lowest index
C23_TieLowestIndexAboveThreshold ==
    (/\ call \in {"AdvancedDocumentProcessor._detect_header_advanced",
                  "MultiModalDocumentProcessor._detect_header_row"}
     /\ Cardinality(TopRows) >= 2
     /\ \A i \in TopRows : ret.scores[i].tenths >= 3)
    => ret.header_row = <<(CHOOSE i \in TopRows : \A j \in TopRows : i <= j) - 1>>

\* two rows below the first share the highest score, which reaches the
\* threshold, and the detector has returned the upper one
C23_TieBelowFirstRow ==
    /\ call \in {"AdvancedDocumentProcessor._detect_header_advanced",
                 "MultiModalDocumentProcessor._detect_header_row"}
    /\ TopRows = {2, 3}
    /\ ret.scores[2].tenths >= 3
    /\ ret.header_row = <<1>>


\* ---------------------------------------------------------------------------
\* IntelligentRetrieval._score_chunk: the relevance score of a chunk
\* (intelligent_retrieval.py).  Scores are exact quotients [num, den].

\* the keywords of a question
MaxKeywords == 2

Frac(n, d) == [num |-> n, den |-> d]

RECURSIVE GCD(_, _)
GCD(a, b) == IF b = 0 THEN a ELSE GCD(b, a % b)

Reduced(f) ==
    LET g == GCD(IF f.num < 0 THEN -f.num ELSE f.num, f.den)
    IN  IF g = 0 THEN f ELSE Frac(f.num \div g, f.den \div g)

FracLess(a, b) == a.num * b.den < b.num * a.den

FracAdd(a, b) == Reduced(Frac(a.num * b.den + b.num * a.den, a.den * b.den))

FracMul(a, b) == Reduced(Frac(a.num * b.num, a.den * b.den))

FracDiv(a, b) == Reduced(Frac(a.num * b.den, a.den * b.num))

\* np.clip(x, lo, hi)
Clip(x, lo, hi) == IF FracLess(x, lo) THEN lo ELSE IF FracLess(hi, x) THEN hi ELSE x

\* np.sum(scores_array * weights_array)
RECURSIVE SumProducts(_, _, _)
SumProducts(scores, weights, i) ==
    IF i > Len(scores) THEN Frac(0, 1)
    ELSE FracAdd(FracMul(scores[i], weights[i]), SumProducts(scores, weights, i + 1))

\* np.sum(weights_array)
RECURSIVE SumWeights(_, _)
SumWeights(weights, i) ==
    IF i > Len(weights) THEN Frac(0, 1)
    ELSE FracAdd(weights[i], SumWeights(weights, i + 1))

\* np.sum(scores_array * weights_array) / np.sum(weights_array)
WeightedAverage(scores, weights) ==
    FracDiv(SumProducts(scores, weights, 1), SumWeights(weights, 1))

\* _keyword_match_score
KeywordMatchScore(keywords, chunk_text) ==
    IF keywords = <<>> THEN Frac(0, 1)
    ELSE LET matches == Cardinality({i \in 1..Len(keywords) : Contains(chunk_text, keywords[i])})
             score   == Frac(matches, Len(keywords))
         IN  IF FracLess(Frac(1, 1), score) THEN Frac(1, 1) ELSE Reduced(score)

\* intersection / union of two sets of lowercased names
Jaccard(question_names, chunk_names) ==
    LET union == Cardinality(question_names \cup chunk_names)
    IN  IF union > 0
        THEN Frac(Cardinality(question_names \cap chunk_names), union)
        ELSE Frac(0, 1)

LowerSet(names) == {Lower(names[i]) : i \in 1..Len(names)}

\* the share of the question's prices that a price of the chunk meets within
\* 1 percent
PriceMatch(question_prices, chunk_prices) ==
    LET Abs(x)  == IF x < 0 THEN -x ELSE x
        matches == Cardinality({i \in 1..Len(question_prices) :
                       \E j \in 1..Len(chunk_prices) :
                           100 * Abs(chunk_prices[j] - question_prices[i]) <= question_prices[i]})
    IN  Frac(matches, Len(question_prices))

\* _entity_match_score
EntityMatchScore(question_entities, chunk_entities) ==
    LET question_skus   == LowerSet(question_entities.skus)
        chunk_skus      == LowerSet(chunk_entities.skus)
        question_grades == LowerSet(question_entities.grades)
        chunk_grades    == LowerSet(chunk_entities.grades)
        sku_part   == IF question_skus # {} /\ chunk_skus # {}
                      THEN <<<<Jaccard(question_skus, chunk_skus), Frac(5, 10)>>>> ELSE <<>>
        price_part == IF Len(question_entities.prices) > 0 /\ Len(chunk_entities.prices) > 0
                      THEN <<<<PriceMatch(question_entities.prices, chunk_entities.prices), Frac(3, 10)>>>>
                      ELSE <<>>
        grade_part == IF question_grades # {} /\ chunk_grades # {}
                      THEN <<<<Jaccard(question_grades, chunk_grades), Frac(2, 10)>>>> ELSE <<>>
        parts         == sku_part \o price_part \o grade_part
        match_scores  == [i \in 1..Len(parts) |-> parts[i][1]]
        match_weights == [i \in 1..Len(parts) |-> parts[i][2]]
    IN  IF parts # <<>>
        THEN Clip(WeightedAverage(match_scores, match_weights), Frac(0, 1), Frac(1, 1))
        ELSE Frac(0, 1)

\* re.search(r'\b[A-Z]\d{2,}\b', text, re.IGNORECASE)
HasSkuPattern(text) ==
    \E i \in 1..Len(text) :
        /\ text[i] \in Letters
        /\ Boundary(text, i)
        /\ LET d == Run(text, Digits, i + 1)
           IN  d >= 2 /\ Boundary(text, i + 1 + d)

\* _intent_match_score, in tenths
IntentMatchScore(intent, chunk_text, chunk_entities) ==
    IF intent = "price_inquiry"
    THEN IF \E indicator \in {<<"p", "r", "i", "c", "e">>, <<"c", "o", "s", "t">>, <<"$">>, <<"d", "o", "l", "l", "a", "r">>} : Contains(chunk_text, indicator)
         THEN 10
         ELSE IF chunk_entities.prices # <<>> THEN 8 ELSE 2
    ELSE IF intent = "code_listing"
    THEN IF chunk_entities.skus # <<>> THEN 10
         ELSE IF HasSkuPattern(chunk_text) THEN 8 ELSE 2
    ELSE IF intent = "calculation"
    THEN IF chunk_entities.prices # <<>> THEN 10
         ELSE IF \E i \in 1..Len(chunk_text) : chunk_text[i] \in Digits THEN 6 ELSE 2
    ELSE IF intent = "comparison"
    THEN IF Len(chunk_entities.prices) > 1 \/ Len(chunk_entities.skus) > 1 THEN 10
         ELSE IF chunk_entities.prices # <<>> \/ chunk_entities.skus # <<>> THEN 6 ELSE 2
    ELSE 5

\* _phrase_match_score, in quarters: the longest run of 2 to 4 words of the
\* question that the chunk holds
PhraseMatchScore(question, chunk_text) ==
    LET question_words == Split(question)
        n              == Len(question_words)
        lens == {phrase_len \in 2..(IF n < 4 THEN n ELSE 4) :
                    \E i \in 1..(n - phrase_len + 1) :
                        Contains(chunk_text, Join(<<" ">>, SubSeq(question_words, i, i + phrase_len - 1)))}
    IN  IF n < 2 \/ lens = {} THEN 0
        ELSE CHOOSE l \in lens : \A k \in lens : k <= l

\* the scores and the weights that _score_chunk collects
ChunkScores(question, question_intent, chunk) ==
    LET chunk_text      == Lower(chunk.text)
        metadata_sku    == Strip(Upper(chunk.metadata.sku))
        chunk_sku       == IF metadata_sku # <<>> THEN metadata_sku ELSE Strip(Upper(chunk.sku))
        sku_match_score == SkuMatchScore(question_intent.entities.skus, chunk_sku)
        keyword_part == <<<<KeywordMatchScore(question_intent.keywords, chunk_text), Frac(40, 100)>>>>
        sku_part     == IF sku_match_score > 0
                        THEN <<<<Reduced(Frac(sku_match_score, 10)), Frac(50, 100)>>>> ELSE <<>>
        entity_part  == IF sku_match_score < 5
                        THEN <<<<EntityMatchScore(question_intent.entities, chunk.entities), Frac(25, 100)>>>>
                        ELSE <<>>
        intent_part  == <<<<Reduced(Frac(IntentMatchScore(question_intent.intent, chunk_text, chunk.entities), 10)),
                            Frac(20, 100)>>>>
        phrase_part  == <<<<Reduced(Frac(PhraseMatchScore(Lower(question), chunk_text), 4)), Frac(10, 100)>>>>
        parts        == keyword_part \o sku_part \o entity_part \o intent_part \o phrase_part
    IN  [sku_match_score |-> sku_match_score,
         scores  |-> [i \in 1..Len(parts) |-> parts[i][1]],
         weights |-> [i \in 1..Len(parts) |-> parts[i][2]]]

\* the weighted sum of the scores, neither divided by the sum of the weights
\* nor clipped
ScoreChunkSum(question, question_intent, chunk) ==
    LET collected == ChunkScores(question, question_intent, chunk)
    IN  SumProducts(collected.scores, collected.weights, 1)

\* _score_chunk
ScoreChunk(question, question_intent, chunk) ==
    LET collected == ChunkScores(question, question_intent, chunk)
    IN  Clip(WeightedAverage(collected.scores, collected.weights), Frac(0, 1), Frac(1, 1))

\* questions with the intent and the prices and grades the analyzer found
AnalyzedQuestions ==
    { [question |-> <<"W", "h", "a", "t", " ", "i", "s", " ", "t", "h", "e", " ", "p", "r", "i", "c", "e", " ", "o", "f", " ", "B", "2", "4">>, intent |-> "price_inquiry", prices |-> <<>>, grades |-> <<<<"e", "l", "i", "t", "e">>>>],
      [question |-> <<"l", "i", "s", "t", " ", "c", "o", "d", "e", "s">>, intent |-> "code_listing", prices |-> <<>>, grades |-> <<>>],
      [question |-> <<"t", "o", "t", "a", "l", " ", "f", "o", "r", " ", "b", "2", "4", " ", "b", "u", "t", "t">>, intent |-> "calculation", prices |-> <<753, 100>>, grades |-> <<>>],
      [question |-> <<"c", "o", "m", "p", "a", "r", "e", " ", "B", "2", "4", " ", "E", "l", "i", "t", "e">>, intent |-> "comparison", prices |-> <<>>, grades |-> <<<<"E", "l", "i", "t", "e">>, <<"P", "r", "e", "m", "i", "u", "m">>>>],
      [question |-> <<"b", "2", "4">>, intent |-> "general", prices |-> <<>>, grades |-> <<>>] }

KeywordPool == {<<"p", "r", "i", "c", "e">>, <<"b", "2", "4">>}

EntitySkuPool == {<<"B", "2", "4">>, <<"W", "3", "0", "3", "0">>}

\* the chunks: a catalog row, a paragraph, a note without entities, a row of
\* another code
ChunkPool ==
    { [text |-> <<"S", "K", "U", ":", " ", "B", "2", "4", " ", "|", " ", "E", "l", "i", "t", "e", ":", " ", "$", "7", "5", "3">>, metadata |-> [sku |-> <<"B", "2", "4">>], sku |-> <<>>,
       entities |-> [skus |-> <<<<"B", "2", "4">>>>, prices |-> <<753>>, grades |-> <<<<"E", "l", "i", "t", "e">>>>]],
      [text |-> <<"T", "h", "e", " ", "p", "r", "i", "c", "e", " ", "o", "f", " ", "B", "2", "4", " ", "B", "U", "T", "T", " ", "i", "s", " ", "4", "8", "0">>, metadata |-> [sku |-> <<>>], sku |-> <<"b", "2", "4", " ", "b", "u", "t", "t", " ">>,
       entities |-> [skus |-> <<>>, prices |-> <<480, 760>>, grades |-> <<>>]],
      [text |-> <<"G", "e", "n", "e", "r", "a", "l", " ", "n", "o", "t", "e", "s">>, metadata |-> [sku |-> <<>>], sku |-> <<>>,
       entities |-> [skus |-> <<>>, prices |-> <<>>, grades |-> <<>>]],
      [text |-> <<"W", "3", "0", "3", "0", " ", "S", "D", " ", "P", "r", "e", "m", "i", "u", "m", " ", "1", "2", "0">>, metadata |-> [sku |-> <<"W", "3", "0", "3", "0", " ", "S", "D">>], sku |-> <<>>,
       entities |-> [skus |-> <<<<"W", "3", "0", "3", "0", " ", "S", "D">>, <<"w", "3", "0", "3", "0">>>>, prices |-> <<>>, grades |-> <<<<"P", "r", "e", "m", "i", "u", "m">>, <<"E", "l", "i", "t", "e">>>>]] }

InitRelevance ==
    /\ call = "none"
    /\ \E q \in AnalyzedQuestions :
          arg = [question |-> q.question,
                 question_intent |-> [keywords |-> <<>>, intent |-> q.intent,
                                      entities |-> [skus |-> <<>>, prices |-> q.prices, grades |-> q.grades]]]
    /\ ret = <<>>
    /\ grid = <<>>
    /\ CacheIdle

\* one more keyword of the question
AddKeyword ==
    /\ call = "none"
    /\ Len(arg.question_intent.keywords) < MaxKeywords
    /\ \E keyword \in KeywordPool :
          arg' = [arg EXCEPT !.question_intent.keywords = Append(@, keyword)]
    /\ UNCHANGED <<call, ret, grid>>
    /\ UNCHANGED cacheVars

\* one more code among the entities of the question
AddEntitySku ==
    /\ call = "none"
    /\ Len(arg.question_intent.entities.skus) < MaxQuestionSkus
    /\ \E sku \in EntitySkuPool :
          arg' = [arg EXCEPT !.question_intent.entities.skus = Append(@, sku)]
    /\ UNCHANGED <<call, ret, grid>>
    /\ UNCHANGED cacheVars

\* the chunk to score
ChooseChunk ==
    /\ call = "none"
    /\ grid = <<>>
    /\ \E chunk \in ChunkPool : grid' = <<chunk>>
    /\ UNCHANGED <<call, arg, ret>>
    /\ UNCHANGED cacheVars

\* _score_chunk(question, question_intent, chunk)
ScoreOneChunk ==
    /\ call = "none"
    /\ grid # <<>>
    /\ ret' = [collected |-> ChunkScores(arg.question, arg.question_intent, grid[1]),
               score     |-> ScoreChunk(arg.question, arg.question_intent, grid[1])]
    /\ call' = "IntelligentRetrieval._score_chunk"
    /\ UNCHANGED <<arg, grid>>
    /\ UNCHANGED cacheVars

NextRelevance == AddKeyword \/ AddEntitySku \/ ChooseChunk \/ ScoreOneChunk

SpecRelevance == InitRelevance /\ [][NextRelevance]_vars

\* C22: for every question and every chunk the score that _score_chunk returns
\* is at least 0 and at most 1
C22_ScoreBounded ==
    call = "IntelligentRetrieval._score_chunk"
    => /\ ~FracLess(ret.score, Frac(0, 1))
       /\ ~FracLess(Frac(1, 1), ret.score)

\* a chunk whose code starts with the code of the question, scored on the code,
\* the keywords, the intent and a phrase, with a score strictly between 0 and 1
C22_ScoredOnEverySignal ==
    /\ call = "IntelligentRetrieval._score_chunk"
    /\ ret.collected.sku_match_score = 9
    /\ Len(ret.collected.scores) = 4
    /\ \A i \in 1..4 : ret.collected.scores[i].num > 0
    /\ FracLess(Frac(0, 1), ret.score)
    /\ FracLess(ret.score, Frac(1, 1))


(***************************************************************************)
(* The calls of the cache, one at a time, on two files.  grid holds the    *)
(* modification time of each file, arg the calls of set_cached_data and    *)
(* clear_cache so far.                                                     *)
(***************************************************************************)
MaxCacheEvents == 2

Paths == {"catalog.xlsx", "prices.xlsx"}

CacheKeys == {"excel_advanced_processed", "excel_rag_processed"}

\* the file at a path as stat sees it
FileAt(path) == [path |-> path, mtime |-> grid[path], codes |-> MinCachedSkus]

InitCacheCalls ==
    /\ call = "none"
    /\ arg = <<>>
    /\ ret = <<>>
    /\ grid = [path \in Paths |-> 1]
    /\ file = <<>>
    /\ file_cache = <<>>
    /\ cache_timestamps = <<>>
    /\ now = 0
    /\ builds = 0
    /\ threads = <<>>

\* get_cached_data(file_path, cache_key)
CallGet ==
    /\ \E path \in Paths, cache_key \in CacheKeys :
          LET got == GetCachedData(file_cache, cache_timestamps, FileAt(path), cache_key, now)
          IN  /\ file_cache' = got.fc
              /\ cache_timestamps' = got.ts
              /\ ret' = [path |-> path, cache_key |-> cache_key, data |-> got.data]
    /\ call' = "get_cached_data"
    /\ UNCHANGED <<arg, grid, file, now, builds, threads>>

\* set_cached_data(file_path, cache_key, data)
CallSet ==
    /\ Len(arg) < MaxCacheEvents
    /\ \E path \in Paths, cache_key \in CacheKeys :
          LET data   == [skus |-> MinCachedSkus, build |-> builds + 1]
              stored == SetCachedData(file_cache, cache_timestamps, FileAt(path), cache_key, data, now)
          IN  /\ file_cache' = stored.fc
              /\ cache_timestamps' = stored.ts
              /\ arg' = Append(arg, [op |-> "set", file |-> FileAt(path), cache_key |-> cache_key,
                                     time |-> now, build |-> builds + 1])
    /\ builds' = builds + 1
    /\ call' = "set_cached_data"
    /\ ret' = <<>>
    /\ UNCHANGED <<grid, file, now, threads>>

\* clear_cache(file_path)
CallClearFile ==
    /\ Len(arg) < MaxCacheEvents
    /\ \E path \in Paths :
          LET cleared == ClearCache(file_cache, cache_timestamps, FileAt(path))
          IN  /\ file_cache' = cleared.fc
              /\ cache_timestamps' = cleared.ts
              /\ arg' = Append(arg, [op |-> "clear", file |-> FileAt(path), cache_key |-> "",
                                     time |-> now, build |-> builds])
    /\ call' = "clear_cache"
    /\ ret' = <<>>
    /\ UNCHANGED <<grid, file, now, builds, threads>>

\* clear_cache()
CallClearAll ==
    /\ Len(arg) < MaxCacheEvents
    /\ file_cache' = <<>>
    /\ cache_timestamps' = <<>>
    /\ arg' = Append(arg, [op |-> "clear_all", file |-> <<>>, cache_key |-> "",
                           time |-> now, build |-> builds])
    /\ call' = "clear_cache"
    /\ ret' = <<>>
    /\ UNCHANGED <<grid, file, now, builds, threads>>

\* the catalog is written again: its modification time changes
Modify ==
    /\ grid["catalog.xlsx"] < MaxMtime
    /\ grid' = [grid EXCEPT !["catalog.xlsx"] = @ + 1]
    /\ UNCHANGED <<call, arg, ret, file, file_cache, cache_timestamps, now, builds, threads>>

NextCacheCalls == CallGet \/ CallSet \/ CallClearFile \/ CallClearAll \/ Modify \/ Expire

SpecCacheCalls == InitCacheCalls /\ [][NextCacheCalls]_vars

\* the call of set_cached_data at place i of the log stored the data that
\* get_cached_data returns, for the file and the key of the call
StoredFor(i, returned) ==
    /\ arg[i].op = "set"
    /\ arg[i].build = returned.data[1].build
    /\ arg[i].file.path = returned.path
    /\ arg[i].file.mtime = grid[returned.path]
    /\ arg[i].cache_key = returned.cache_key

\* a call of clear_cache after place i of the log, for the path or for all
\* files
ClearedSince(i, path) ==
    \E j \in (i + 1)..Len(arg) :
        \/ arg[j].op = "clear_all"
        \/ arg[j].op = "clear" /\ arg[j].file.path = path

InitExpiredReaders ==
    /\ call = "none"
    /\ arg = <<>>
    /\ ret = <<>>
    /\ grid = <<>>
    /\ file = [path |-> "catalog.xlsx", mtime |-> 1, codes |-> MinCachedSkus]
    /\ file_cache = DictSet(<<>>, TheKey, [skus |-> MinCachedSkus, build |-> 1])
    /\ cache_timestamps = DictSet(<<>>, TheKey, [time |-> 0, of |-> 1])
    /\ now \in {0, CACHE_TTL}
    /\ builds = 1
    /\ threads = [t \in {Writer} \cup Readers |-> IdleThread]

NextExpiredReaders ==
    \E r \in Readers :
        BeginGet(r) \/ Get50(r) \/ Get51(r) \/ Get52(r) \/ GetReturn(r)
            \/ Get59(r) \/ Get60(r)

SpecExpiredReaders == InitExpiredReaders /\ [][NextExpiredReaders]_vars

C27_AdvancedKeepsRagEntry ==
    [][QueryAdvanced
        => (FullKey(file, "excel_rag_processed") \in DOMAIN file_cache
              => /\ FullKey(file, "excel_rag_processed") \in DOMAIN file_cache'
                 /\ FullKey(file, "excel_rag_processed") \in DOMAIN cache_timestamps')]_vars


(***************************************************************************)
(* pricing_ai_query on a bulk question (server.py): one coroutine per      *)
(* sub-question, run by asyncio.gather; each awaits query_ai_provider,     *)
(* which awaits the requested provider and, when that fails, the other.    *)
(* threads holds the coroutines, grid the order in which they finished.    *)
(***************************************************************************)
MaxSubQuestions == 3

Providers == {"gemini", "openai"}

\* what a call of a provider ends with: an answer or an exception
CallOutcomes(provider) ==
    IF provider = "gemini" THEN {"ok", "error"} ELSE {"ok", "not configured", "error"}

\* the provider query_ai_provider falls back to: the provider itself
SameProvider(provider) == provider

\* the provider query_ai_provider falls back to
OtherProvider(provider) == IF provider = "gemini" THEN "openai" ELSE "gemini"

\* the text of the RuntimeError raised when both providers failed
BothFailedMessage(provider, calls) ==
    IF provider = "gemini"
    THEN "Gemini failed and OpenAI fallback also failed."
    ELSE IF calls[1].outcome = "not configured"
    THEN "OpenAI is not configured (set OPENAI_API_KEY) and Gemini fallback also failed."
    ELSE "OpenAI failed and Gemini fallback also failed."

\* query_ai_provider, given the calls of the providers it made and how they
\* ended: the answer and the provider that gave it, or the text of the error
QueryAiProvider(provider, calls) ==
    IF calls[Len(calls)].outcome = "ok"
    THEN [raised |-> FALSE, answer |-> <<"answer", calls[Len(calls)].provider>>,
          resolved_provider |-> calls[Len(calls)].provider]
    ELSE [raised |-> FALSE, answer |-> <<"error", BothFailedMessage(provider, calls)>>,
          resolved_provider |-> provider]

\* the sub-questions: one that asks for a list and one that does not
SubQuestionPool == {"List all codes?", "What is the price of B24?"}

\* format_ai_response: an answer to a question with list, all or show gets a
\* heading
FormatAiResponse(answer, question) ==
    IF question = "List all codes?" THEN <<"ANSWER">> \o answer ELSE answer

\* asyncio.gather handing the results over in the order the coroutines
\* finished
GatherAsCompleted(tasks, finished) ==
    [k \in 1..Len(finished) |-> tasks[finished[k]].result]

\* asyncio.gather: the results in the order of the coroutines it was given
Gather(tasks, finished) ==
    [i \in 1..Len(finished) |-> tasks[i].result]

RECURSIVE BulkSections(_, _)
BulkSections(question_answers, i) ==
    IF i > Len(question_answers) THEN <<>>
    ELSE << <<"### ", i, ". ", question_answers[i].question>>, <<>>,
            question_answers[i].answer, <<>>, <<"---">>, <<>> >>
         \o BulkSections(question_answers, i + 1)

\* format_bulk_answer: the lines of the combined answer
FormatBulkAnswer(question_answers) ==
    IF question_answers = <<>> THEN <<>>
    ELSE IF Len(question_answers) = 1 THEN <<question_answers[1].answer>>
    ELSE << <<"Here are the answers to your questions:">>, <<>> >>
         \o BulkSections(question_answers, 1)

\* a coroutine of process_single_question at its first await
StartedTask == [pc |-> "first", calls |-> <<>>, result |-> <<>>]

InitBulk ==
    /\ call = "none"
    /\ \E n \in 1..MaxSubQuestions, provider \in Providers :
          \E questions \in [1..n -> SubQuestionPool] :
              /\ arg = [provider |-> provider, questions |-> questions]
              /\ threads = [i \in 1..n |-> StartedTask]
    /\ ret = <<>>
    /\ grid = <<>>
    /\ file = <<>>
    /\ file_cache = <<>>
    /\ cache_timestamps = <<>>
    /\ now = 0
    /\ builds = 0

\* the provider the coroutine is waiting for
Awaited(i) ==
    IF threads[i].pc = "first" THEN arg.provider ELSE OtherProvider(arg.provider)

\* the coroutine ends with the dict of its question and answer
Finish(i, calls, answer) ==
    /\ threads' = [threads EXCEPT ![i] =
                      [pc |-> "done", calls |-> calls,
                       result |-> [question |-> arg.questions[i], answer |-> answer]]]
    /\ grid' = Append(grid, i)

\* the awaited provider answers: query_ai_provider returns the answer
ProviderReturns(i) ==
    /\ call = "none"
    /\ i \in DOMAIN threads
    /\ threads[i].pc \in {"first", "second"}
    /\ LET calls == Append(threads[i].calls, [provider |-> Awaited(i), outcome |-> "ok"])
           got   == QueryAiProvider(arg.provider, calls)
       IN  IF got.raised
           THEN Finish(i, calls, <<"error", "Error processing this question">>)
           ELSE Finish(i, calls, FormatAiResponse(got.answer, arg.questions[i]))
    /\ UNCHANGED <<call, arg, ret, file, file_cache, cache_timestamps, now, builds>>

\* the requested provider fails: query_ai_provider calls the other one
FirstProviderRaises(i) ==
    /\ call = "none"
    /\ i \in DOMAIN threads
    /\ threads[i].pc = "first"
    /\ \E outcome \in CallOutcomes(Awaited(i)) \ {"ok"} :
          threads' = [threads EXCEPT ![i] =
              [@ EXCEPT !.pc = "second",
                        !.calls = Append(@, [provider |-> Awaited(i), outcome |-> outcome])]]
    /\ UNCHANGED <<call, arg, ret, grid, file, file_cache, cache_timestamps, now, builds>>

\* the fallback provider fails too: query_ai_provider returns the text of the
\* error as the answer
SecondProviderRaises(i) ==
    /\ call = "none"
    /\ i \in DOMAIN threads
    /\ threads[i].pc = "second"
    /\ \E outcome \in CallOutcomes(Awaited(i)) \ {"ok"} :
          LET calls == Append(threads[i].calls, [provider |-> Awaited(i), outcome |-> outcome])
              got   == QueryAiProvider(arg.provider, calls)
          IN  IF got.raised
              THEN Finish(i, calls, <<"error", "Error processing this question">>)
              ELSE Finish(i, calls, FormatAiResponse(got.answer, arg.questions[i]))
    /\ UNCHANGED <<call, arg, ret, file, file_cache, cache_timestamps, now, builds>>

\* asyncio.gather has every result: format_bulk_answer and the response
CombineAnswers ==
    /\ call = "none"
    /\ \A i \in DOMAIN threads : threads[i].pc = "done"
    /\ ret' = [response |-> FormatBulkAnswer(Gather(threads, grid)), provider |-> arg.provider]
    /\ call' = "pricing_ai_query"
    /\ UNCHANGED <<arg, grid, threads, file, file_cache, cache_timestamps, now, builds>>

NextBulk ==
    \/ CombineAnswers
    \/ \E i \in 1..MaxSubQuestions :
          ProviderReturns(i) \/ FirstProviderRaises(i) \/ SecondProviderRaises(i)

SpecBulk == InitBulk /\ [][NextBulk]_vars


\* the answer without the heading of format_ai_response
AnswerBody(answer) == IF answer # <<>> /\ answer[1] = "ANSWER" THEN Tail(answer) ELSE answer

C28_SectionsInOrder ==
    call = "pricing_ai_query"
    => LET n     == Len(arg.questions)
           lines == ret.response
           Expected(i) ==
               LET last == threads[i].calls[Len(threads[i].calls)]
               IN  IF last.outcome = "ok" THEN <<"answer", last.provider>>
                   ELSE <<"error", BothFailedMessage(arg.provider, threads[i].calls)>>
       IN  IF n = 1 THEN lines = <<threads[1].result.answer>>
                         /\ AnswerBody(lines[1]) = Expected(1)
           ELSE /\ Len(lines) = 2 + 6 * n
                /\ \A i \in 1..n :
                      /\ lines[6 * i - 3] = <<"### ", i, ". ", arg.questions[i]>>
                      /\ AnswerBody(lines[6 * i - 1]) = Expected(i)

\* a combined answer whose last coroutine finished first, with a failed
\* sub-question before an answered one
C28_FinishedOutOfOrder ==
    /\ call = "pricing_ai_query"
    /\ Len(arg.questions) >= 2
    /\ grid[1] = Len(arg.questions)
    /\ AnswerBody(ret.response[5])[1] = "error"
    /\ AnswerBody(ret.response[11])[1] = "answer"


(***************************************************************************)
(* The endpoints that read a stored file (server.py).  grid holds the      *)
(* tables: the owner of each project and the project of each file; arg is  *)
(* the request, ret the status of the response.                            *)
(***************************************************************************)
MaxProjects == 2

MaxFiles == 2

UserIds == {1, 2}

InitFiles ==
    /\ call = "none"
    /\ arg = <<>>
    /\ ret = <<>>
    /\ grid = [projects |-> <<>>, files |-> <<>>]
    /\ CacheIdle

\* POST /projects
CreateProject ==
    /\ Len(grid.projects) < MaxProjects
    /\ \E current_user \in UserIds :
          /\ grid' = [grid EXCEPT !.projects = Append(@, [owner_id |-> current_user])]
          /\ arg' = [current_user |-> current_user, id |-> Len(grid.projects) + 1]
    /\ call' = "create_project"
    /\ ret' = [status |-> 200]
    /\ UNCHANGED cacheVars

\* POST /projects/{project_id}/files: only into a project of the caller
UploadFile ==
    /\ Len(grid.files) < MaxFiles
    /\ \E current_user \in UserIds, project_id \in 1..MaxProjects :
          LET found == /\ project_id \in DOMAIN grid.projects
                       /\ grid.projects[project_id].owner_id = current_user
          IN  /\ grid' = IF found
                         THEN [grid EXCEPT !.files = Append(@, [project_id |-> project_id])]
                         ELSE grid
              /\ arg' = [current_user |-> current_user, id |-> project_id]
              /\ ret' = [status |-> IF found THEN 200 ELSE 404]
    /\ call' = "upload_file"
    /\ UNCHANGED cacheVars

\* GET /files/{file_id}
GetFile ==
    /\ \E current_user \in UserIds, file_id \in 1..MaxFiles :
          /\ arg' = [current_user |-> current_user, id |-> file_id]
          /\ ret' = [status |->
                IF file_id \notin DOMAIN grid.files THEN 404
                ELSE IF grid.files[file_id].project_id \notin DOMAIN grid.projects THEN 404
                ELSE IF grid.projects[grid.files[file_id].project_id].owner_id # current_user
                THEN 403
                ELSE 200]
    /\ call' = "get_file"
    /\ UNCHANGED grid
    /\ UNCHANGED cacheVars

\* GET /files/{file_id}/download
DownloadFile ==
    /\ \E current_user \in UserIds, file_id \in 1..MaxFiles :
          /\ arg' = [current_user |-> current_user, id |-> file_id]
          /\ ret' = [status |-> IF file_id \notin DOMAIN grid.files THEN 404 ELSE 200]
    /\ call' = "download_file"
    /\ UNCHANGED grid
    /\ UNCHANGED cacheVars

\* POST /pricing-ai/query, up to the answer
PricingAiQuery ==
    /\ \E current_user \in UserIds, file_id \in 1..MaxFiles :
          /\ arg' = [current_user |-> current_user, id |-> file_id]
          /\ ret' = [status |->
                IF file_id \notin DOMAIN grid.files THEN 404
                ELSE IF \E project_id \in DOMAIN grid.projects :
                           /\ project_id = grid.files[file_id].project_id
                           /\ grid.projects[project_id].owner_id = current_user
                THEN 200
                ELSE 403]
    /\ call' = "pricing_ai_query"
    /\ UNCHANGED grid
    /\ UNCHANGED cacheVars

NextFiles == CreateProject \/ UploadFile \/ GetFile \/ DownloadFile \/ PricingAiQuery

SpecFiles == InitFiles /\ [][NextFiles]_vars

\* C29: an endpoint that reads a file answers a user with the file only if
\* the user owns the project of the file
C29_OnlyOwnerReads ==
    (call \in {"get_file", "download_file", "pricing_ai_query"} /\ ret.status = 200)
    => grid.projects[grid.files[arg.id].project_id].owner_id = arg.current_user

(***************************************************************************)
(* POST /auth/login and /auth/signup (server.py).  grid is the table of    *)
(* the users; the id of a user is its place in the table.                  *)
(***************************************************************************)
Emails == {[local |-> "ann", domain |-> "a.com"], [local |-> "ann", domain |-> "b.com"],
           [local |-> "", domain |-> "c.com"]}

Passwords == {"secret", "guess"}

\* a username is the text before the @ of an email, with a number after it or not
Usernames == {<<"ann">>, <<"ann", 1>>}

\* get_password_hash
GetPasswordHash(password) == <<"bcrypt", password>>

\* verify_password
VerifyPassword(plain_password, hashed_password) == hashed_password = <<"bcrypt", plain_password>>

\* create_access_token
CreateAccessToken(user_id) == <<"jwt", user_id>>

\* db.query(User).filter(User.email == email).first(): the id of the user, 0 for None
UserByEmail(users, email) ==
    IF \E id \in DOMAIN users : users[id].email = email
    THEN CHOOSE id \in DOMAIN users : users[id].email = email
    ELSE 0

\* the first of username, base_username1, base_username2, ... that no user has
RECURSIVE FreeUsername(_, _, _, _)
FreeUsername(users, username, base_username, suffix) ==
    IF \E id \in DOMAIN users : users[id].username = username
    THEN FreeUsername(users, <<base_username, suffix>>, base_username, suffix + 1)
    ELSE username

InitLogin ==
    /\ call = "none"
    /\ arg = <<>>
    /\ ret = <<>>
    /\ grid = <<>>
    /\ CacheIdle

\* POST /auth/signup
Signup ==
    /\ \E email \in Emails, username \in Usernames, password \in Passwords :
          LET taken == \/ UserByEmail(grid, email) # 0
                       \/ \E id \in DOMAIN grid : grid[id].username = username
          IN  /\ arg' = [email |-> email, password |-> password]
              /\ grid' = IF taken THEN grid
                         ELSE Append(grid, [email |-> email, username |-> username,
                                            hashed_password |-> GetPasswordHash(password)])
              /\ ret' = IF taken THEN [status |-> 400, access_token |-> <<>>]
                        ELSE [status |-> 200, access_token |-> <<CreateAccessToken(Len(grid) + 1)>>]
    /\ call' = "signup"
    /\ UNCHANGED cacheVars

\* POST /auth/login
Login ==
    /\ \E email \in Emails, password \in Passwords :
          LET id == UserByEmail(grid, email)
              base_username == IF email.local = "" THEN "user" ELSE email.local
          IN  /\ arg' = [email |-> email, password |-> password]
              /\ IF id = 0
                 THEN /\ grid' = Append(grid,
                            [email |-> email,
                             username |-> FreeUsername(grid, <<email.local>>, base_username, 1),
                             hashed_password |-> GetPasswordHash(password)])
                      /\ ret' = [status |-> 200, access_token |-> <<CreateAccessToken(Len(grid) + 1)>>]
                 ELSE /\ grid' = IF VerifyPassword(password, grid[id].hashed_password) THEN grid
                                 ELSE [grid EXCEPT ![id].hashed_password = GetPasswordHash(password)]
                      /\ ret' = [status |-> 200, access_token |-> <<CreateAccessToken(id)>>]
    /\ call' = "login"
    /\ UNCHANGED cacheVars

NextLogin == Signup \/ Login

SpecLogin == InitLogin /\ [][NextLogin]_vars

\* C30: a login for an existing account with a password that does not match
\* the stored one gets no access token and leaves the stored password as it is
C30_WrongPasswordRejected ==
    [][(/\ Login
        /\ UserByEmail(grid, arg'.email) # 0
        /\ ~VerifyPassword(arg'.password, grid[UserByEmail(grid, arg'.email)].hashed_password))
        => /\ ret'.access_token = <<>>
           /\ grid' = grid]_vars

====
